---------------------------- MODULE Spec2Model ----------------------------
(***************************************************************************)
(* Model of the technical-analytics path of the finance assistant          *)
(* (src/agents/analytics_agent.py): the signal derivation and the          *)
(* per-symbol summary builder (get_technical_summary) and the two          *)
(* aggregators (analyze_risk_exposure, get_portfolio_analytics).           *)
(*                                                                         *)
(* Numbers.  A float is a record [kind, v]: kind "num" with v the value in *)
(* thousandths (30.00 is 30000), or kind "nan".  Comparisons with a NaN    *)
(* are false and arithmetic on a NaN gives a NaN, as in IEEE arithmetic.   *)
(* Sums and quotients are exact (no binary rounding error).                *)
(*                                                                         *)
(* Strings that the code inspects character by character (symbols, the     *)
(* region) are sequences of one-character strings; Python's None and the   *)
(* Optional type are <<>> and <<x>>.                                       *)
(*                                                                         *)
(* Price histories.  The statistics pandas computes over a close series    *)
(* (rolling means, standard deviations, covariances) are inputs of the     *)
(* model: a history is a record holding the number of bars and the value   *)
(* each trailing statistic has when its window is full.  What the code     *)
(* decides -- whether a window is full, what is read from an empty series, *)
(* the defaults, the guards, the rounding, the signals, the aggregation -- *)
(* is computed by the operators below.  The generation timestamp of the    *)
(* reports (datetime.now()) is not modelled.                               *)
(***************************************************************************)
EXTENDS Integers, Sequences, FiniteSets, TLC

VARIABLES
    pc,        \* "ready" before the call, "done" after it; in between, the
               \* collaborator answer_question calls next
    request,   \* the call: [op, symbols, region], or the arguments of an
               \* indicator function, or [op, question]
    selected,  \* analyze_risk_exposure's local `symbols` after the region filter;
               \* answer_question's locals market_context and rag_context
    provided,  \* what the price provider answered, one feed per summary built;
               \* the calls answer_question made, in order
    outcome    \* what the call returned, or that it raised

vars == <<pc, request, selected, provided, outcome>>

---------------------------------------------------------------------------
(* Floats *)

NaN == [kind |-> "nan", v |-> 0]

F(v) == [kind |-> "num", v |-> v]

\* The decimal literal w.ff of the source (Dec(1, 50) is 1.5, Dec(30, 0) is 30).
Dec(w, f) == F((w * 100 + f) * 10)

IsNum(x) == x.kind = "num"

FGt(a, b) == IsNum(a) /\ IsNum(b) /\ a.v > b.v

FLt(a, b) == IsNum(a) /\ IsNum(b) /\ a.v < b.v

FAdd(a, b) == IF IsNum(a) /\ IsNum(b) THEN F(a.v + b.v) ELSE NaN

\* a > b * (num / 100), for the band factors 0.98 and 1.02
FGtScaled(a, b, num) == IsNum(a) /\ IsNum(b) /\ a.v * 100 > b.v * num

FLtScaled(a, b, num) == IsNum(a) /\ IsNum(b) /\ a.v * 100 < b.v * num

\* num / den (den > 0) rounded to the nearest integer, ties to even
RoundHalfEven(num, den) ==
    LET q == num \div den
        r == num % den
    IN  IF 2 * r < den THEN q
        ELSE IF 2 * r > den THEN q + 1
        ELSE IF q % 2 = 0 THEN q ELSE q + 1

\* round(x, 2): two decimals are tens of thousandths
Round2(x) == IF IsNum(x) THEN F(RoundHalfEven(x.v, 10) * 10) ELSE NaN

\* total / n, kept exact: [kind, num, den]
Quot(total, n) == [kind |-> total.kind, num |-> total.v, den |-> n]

QGt(q, c) == q.kind = "num" /\ c.kind = "num" /\ q.num > c.v * q.den

Round2Q(q) ==
    IF q.kind = "num" THEN F(RoundHalfEven(q.num, q.den * 10) * 10) ELSE NaN

\* ((cur - prev) / prev) * 100 with prev > 0, in thousandths of a percent
PctChange(cur, prev) ==
    IF IsNum(cur) /\ IsNum(prev)
    THEN F(RoundHalfEven((cur.v - prev.v) * 100000, prev.v))
    ELSE NaN

---------------------------------------------------------------------------
(* Strings *)

LowerCase ==
    <<"a","b","c","d","e","f","g","h","i","j","k","l","m",
      "n","o","p","q","r","s","t","u","v","w","x","y","z">>

UpperCase ==
    <<"A","B","C","D","E","F","G","H","I","J","K","L","M",
      "N","O","P","Q","R","S","T","U","V","W","X","Y","Z">>

UpperChar(c) ==
    IF \E i \in 1..26 : LowerCase[i] = c
    THEN UpperCase[CHOOSE i \in 1..26 : LowerCase[i] = c]
    ELSE c

LowerChar(c) ==
    IF \E i \in 1..26 : UpperCase[i] = c
    THEN LowerCase[CHOOSE i \in 1..26 : UpperCase[i] = c]
    ELSE c

upper(s) == [i \in 1..Len(s) |-> UpperChar(s[i])]

lower(s) == [i \in 1..Len(s) |-> LowerChar(s[i])]

\* sub in s
Contains(sub, s) ==
    \E i \in 1..(Len(s) - Len(sub) + 1) : SubSeq(s, i, i + Len(sub) - 1) = sub

\* x in xs, for a list xs
InList(x, xs) == \E i \in 1..Len(xs) : xs[i] = x


Min(a, b) == IF a < b THEN a ELSE b

---------------------------------------------------------------------------
(* The price provider and the indicator library *)

\* A DataFrame with no rows.
EmptyFrame == [bars |-> 0]

\* A faulty get_stock_data that answers a failure with a frame of one
\* placeholder row; C13 does not hold of it.
get_stock_data_PlaceholderRow(hist) ==
    IF hist.fault THEN [bars |-> 1]
    ELSE IF hist.bars = 0 THEN [bars |-> 1]
    ELSE hist

\* get_stock_data: the provider's answer `hist` as a DataFrame; an exception
\* of the provider and an empty history both give the empty DataFrame.
get_stock_data(hist) ==
    IF hist.fault THEN EmptyFrame
    ELSE IF hist.bars = 0 THEN EmptyFrame
    ELSE hist

\* prices.rolling(window).mean().iloc[-1]: NaN until the window is full
RollingMean(prices, window) ==
    IF prices.bars >= window THEN prices.mean[window] ELSE NaN

\* prices.rolling(window).std().iloc[-1]
RollingStd(prices, window) ==
    IF prices.bars >= window /\ window >= 2 THEN prices.std[window] ELSE NaN

\* calculate_rsi(prices, period).iloc[-1].  The first difference is NaN and
\* `where` turns it into 0, so gain and loss hold one value per bar and their
\* rolling means are defined from `period` bars on; prices.rsi is
\* 100 - 100 / (1 + gain / loss) over the last window (NaN when both are 0).
calculate_rsi(prices, period) ==
    IF prices.bars >= period THEN prices.rsi ELSE NaN

calculate_moving_averages(prices, short, long) ==
    [sma_short |-> RollingMean(prices, short),
     sma_long  |-> RollingMean(prices, long)]

\* std_dev is the integer multiplier (2.0 in every call)
calculate_bollinger_bands(prices, period, std_dev) ==
    LET middle == RollingMean(prices, period)
        std    == RollingStd(prices, period)
        width  == IF IsNum(std) THEN F(std.v * std_dev) ELSE NaN
    IN  [middle |-> middle,
         upper  |-> FAdd(middle, width),
         lower  |-> IF IsNum(middle) /\ IsNum(width)
                    THEN F(middle.v - width.v) ELSE NaN]

\* calculate_volatility: pct_change().dropna() holds bars - 1 returns (none
\* for an empty series); .iloc[-1]
\* of the rolling std of no returns raises IndexError; with fewer than `period`
\* returns the std is NaN.  prices.annualized is std * sqrt(252) * 100.
calculate_volatility(prices, period) ==
    LET returns == IF prices.bars > 0 THEN prices.bars - 1 ELSE 0
    IN  IF returns = 0
        THEN [raised |-> TRUE, value |-> NaN]
        ELSE [raised |-> FALSE,
              value  |-> Round2(IF returns >= period THEN prices.annualized ELSE NaN)]

\* A faulty calculate_beta without the test for a zero variance; C15 does not
\* hold of it.
calculate_beta_NoVarianceCheck(stock_prices, market_prices, period) ==
    LET stock_returns  == Min(stock_prices.bars - 1, period)
        market_returns == Min(market_prices.bars - 1, period)
        aligned        == Min(market_prices.overlap, Min(stock_returns, market_returns))
    IN  IF aligned < 10 THEN Dec(1, 0)
        ELSE Round2(market_prices.cov_over_var)

\* calculate_beta: the last `period` returns of both series, aligned on their
\* dates (market_prices.overlap dates in common at most).
calculate_beta(stock_prices, market_prices, period) ==
    LET stock_returns  == Min(stock_prices.bars - 1, period)
        market_returns == Min(market_prices.bars - 1, period)
        aligned        == Min(market_prices.overlap, Min(stock_returns, market_returns))
    IN  IF aligned < 10 THEN Dec(1, 0)
        ELSE IF market_prices.variance_zero THEN Dec(1, 0)
        ELSE Round2(market_prices.cov_over_var)

---------------------------------------------------------------------------
(* Signal derivation (get_technical_summary, lines 193-195 and 218) *)

\* A faulty rsi_signal whose thresholds are not strict; C9 does not hold of it.
rsi_signal_NotStrict(current_rsi) ==
    IF ~FLt(current_rsi, Dec(70, 0)) /\ IsNum(current_rsi) THEN "Overbought"
    ELSE IF ~FGt(current_rsi, Dec(30, 0)) /\ IsNum(current_rsi) THEN "Oversold"
    ELSE "Neutral"

rsi_signal(current_rsi) ==
    IF FGt(current_rsi, Dec(70, 0)) THEN "Overbought"
    ELSE IF FLt(current_rsi, Dec(30, 0)) THEN "Oversold"
    ELSE "Neutral"

\* A faulty trend_signal that calls equal averages Bullish; C10 does not hold
\* of it.
trend_signal_TieBullish(sma_20, sma_50) ==
    IF IsNum(sma_20) /\ IsNum(sma_50) /\ sma_20.v >= sma_50.v THEN "Bullish"
    ELSE IF FLt(sma_20, sma_50) THEN "Bearish"
    ELSE "Neutral"

trend_signal(sma_20, sma_50) ==
    IF FGt(sma_20, sma_50) THEN "Bullish"
    ELSE IF FLt(sma_20, sma_50) THEN "Bearish"
    ELSE "Neutral"

\* A faulty bb_signal that tests the lower band first; C11 does not hold of
\* it.
bb_signal_LowerFirst(current_price, bb_upper, bb_lower) ==
    IF FLtScaled(current_price, bb_lower, 102) THEN "Near Lower"
    ELSE IF FGtScaled(current_price, bb_upper, 98) THEN "Near Upper"
    ELSE "Within Bands"

bb_signal(current_price, bb_upper, bb_lower) ==
    IF FGtScaled(current_price, bb_upper, 98) THEN "Near Upper"
    ELSE IF FLtScaled(current_price, bb_lower, 102) THEN "Near Lower"
    ELSE "Within Bands"

\* A faulty risk_level whose thresholds are not strict; C7 does not hold of it.
risk_level_NotStrict(volatility, beta) ==
    IF (IsNum(volatility) /\ volatility.v >= 30000) \/ (IsNum(beta) /\ beta.v >= 1500)
    THEN "High"
    ELSE IF (IsNum(volatility) /\ volatility.v >= 20000) \/ (IsNum(beta) /\ beta.v >= 1000)
    THEN "Medium"
    ELSE "Low"

\* A faulty risk_level with the first volatility comparison reversed; C8 does
\* not hold of it.
risk_level_Reversed(volatility, beta) ==
    IF FLt(volatility, Dec(30, 0)) \/ FGt(beta, Dec(1, 50)) THEN "High"
    ELSE IF FGt(volatility, Dec(20, 0)) \/ FGt(beta, Dec(1, 0)) THEN "Medium"
    ELSE "Low"

risk_level(volatility, beta) ==
    IF FGt(volatility, Dec(30, 0)) \/ FGt(beta, Dec(1, 50)) THEN "High"
    ELSE IF FGt(volatility, Dec(20, 0)) \/ FGt(beta, Dec(1, 0)) THEN "Medium"
    ELSE "Low"

---------------------------------------------------------------------------
(* get_technical_summary.  feed.stock and feed.spy are the provider's answers *)
(* to the two get_stock_data calls the function makes.                        *)

get_technical_summary(symbol, feed) ==
    LET data == get_stock_data(feed.stock)
    IN  IF data.bars = 0
        THEN [kind |-> "error", error |-> <<"No data found for", symbol>>]
        ELSE
        LET close         == data
            current_price == close.last
            current_rsi   == calculate_rsi(close, 14)
            mas           == calculate_moving_averages(close, 20, 50)
            sma_20        == mas.sma_short
            sma_50        == mas.sma_long
            bb            == calculate_bollinger_bands(close, 20, 2)
            bb_upper      == bb.upper
            bb_lower      == bb.lower
            vol           == calculate_volatility(close, 20)
        IN  IF vol.raised
            THEN [kind |-> "raised", exception |-> "IndexError"]
            ELSE
            LET volatility  == vol.value
                market_data == get_stock_data(feed.spy)
                beta  == IF market_data.bars # 0
                         THEN calculate_beta(close, market_data, 60)
                         ELSE Dec(1, 0)
                price_1d == IF close.bars > 1
                            THEN PctChange(current_price, close.iloc_m2) ELSE F(0)
                price_1w == IF close.bars > 5
                            THEN PctChange(current_price, close.iloc_m5) ELSE F(0)
                price_1m == IF close.bars > 20
                            THEN PctChange(current_price, close.iloc_m20) ELSE F(0)
            IN  [kind            |-> "summary",
                 symbol          |-> symbol,
                 current_price   |-> Round2(current_price),
                 price_change_1d |-> Round2(price_1d),
                 price_change_1w |-> Round2(price_1w),
                 price_change_1m |-> Round2(price_1m),
                 rsi             |-> Round2(current_rsi),
                 rsi_signal      |-> rsi_signal(current_rsi),
                 sma_20          |-> Round2(sma_20),
                 sma_50          |-> Round2(sma_50),
                 trend_signal    |-> trend_signal(sma_20, sma_50),
                 bollinger_upper |-> Round2(bb_upper),
                 bollinger_lower |-> Round2(bb_lower),
                 bollinger_signal |-> bb_signal(current_price, bb_upper, bb_lower),
                 volatility      |-> volatility,
                 beta            |-> beta,
                 risk_level      |-> risk_level(volatility, beta)]

---------------------------------------------------------------------------
(* analyze_risk_exposure *)

asia_tech_stocks ==
    <<<<"T","S","M">>,
      <<"2","3","3","0",".","T","W">>,
      <<"S","S","N","L","F">>,
      <<"0","0","5","9","3","0",".","K","S">>,
      <<"B","A","B","A">>,
      <<"B","I","D","U">>,
      <<"9","9","8","8",".","H","K">>>>

us_tech_stocks ==
    <<<<"A","A","P","L">>,
      <<"M","S","F","T">>,
      <<"G","O","O","G","L">>,
      <<"M","E","T","A">>,
      <<"N","V","D","A">>,
      <<"A","M","D">>,
      <<"I","N","T","C">>>>

europe_stocks ==
    <<<<"A","S","M","L">>,
      <<"S","A","P">>,
      <<"S","H","O","P">>>>

\* A faulty filter that compares symbols as written; C4 does not hold of it.
FilterByTable_CaseSensitive(symbols, table) ==
    LET Member(s) == InList(s, table)
    IN  SelectSeq(symbols, Member)

\* [s for s in symbols if s.upper() in [x.upper() for x in table]]
FilterByTable(symbols, table) ==
    LET uppers == [i \in 1..Len(table) |-> upper(table[i])]
        Member(s) == InList(upper(s), uppers)
    IN  SelectSeq(symbols, Member)

\* xs or [default]
OrDefault(xs, default) == IF Len(xs) = 0 THEN <<default>> ELSE xs

\* Lines 238-249: the region filter and the default for an empty list.
\* region is <<>> (None) or <<string>>.
RegionFilter(symbols, region) ==
    LET filtered ==
            IF region # <<>> /\ Len(region[1]) > 0
            THEN LET region_lower == lower(region[1])
                 IN  IF Contains(<<"a","s","i","a">>, region_lower)
                     THEN OrDefault(FilterByTable(symbols, asia_tech_stocks), <<"T","S","M">>)
                     ELSE IF Contains(<<"u","s">>, region_lower) \/ Contains(<<"a","m","e","r","i","c","a">>, region_lower)
                     THEN OrDefault(FilterByTable(symbols, us_tech_stocks), <<"A","A","P","L">>)
                     ELSE IF Contains(<<"e","u","r","o","p","e">>, region_lower)
                     THEN OrDefault(FilterByTable(symbols, europe_stocks), <<"A","S","M","L">>)
                     ELSE symbols
            ELSE symbols
    IN  IF Len(filtered) = 0 THEN <<<<"T","S","M">>>> ELSE filtered

\* get_technical_summary of every symbol, in order, each on the feed the
\* provider gave for it.
Analyses(symbols, feeds) ==
    [i \in 1..Len(symbols) |-> get_technical_summary(symbols[i], feeds[i])]

Raises(analyses) == \E i \in 1..Len(analyses) : analyses[i].kind = "raised"

\* The number of summaries built before the loop ended: all of them, or up to
\* and including the one that raised.
Consumed(analyses) ==
    IF Raises(analyses)
    THEN CHOOSE i \in 1..Len(analyses) :
            /\ analyses[i].kind = "raised"
            /\ \A j \in 1..(i - 1) : analyses[j].kind # "raised"
    ELSE Len(analyses)

\* A faulty test that also leaves out a summary whose volatility is undefined;
\* C1 does not hold of it.
NoErrorKey_DropsUndefined(analysis) ==
    analysis.kind = "summary" /\ IsNum(analysis.volatility)

\* "error" not in analysis
NoErrorKey(analysis) == analysis.kind = "summary"

IsHighRisk(a) == a.risk_level = "High"

RECURSIVE TotalVolatility(_)
TotalVolatility(as) ==
    IF Len(as) = 0 THEN F(0)
    ELSE FAdd(TotalVolatility(SubSeq(as, 1, Len(as) - 1)), as[Len(as)].volatility)

RECURSIVE TotalBeta(_)
TotalBeta(as) ==
    IF Len(as) = 0 THEN F(0)
    ELSE FAdd(TotalBeta(SubSeq(as, 1, Len(as) - 1)), as[Len(as)].beta)

\* A faulty classification that takes half of the summaries for a majority;
\* C5 does not hold of it.
OverallRisk_HalfIsMajority(portfolio_analysis, avg_volatility, avg_beta) ==
    LET high_risk_count == Len(SelectSeq(portfolio_analysis, IsHighRisk))
    IN  IF high_risk_count * 2 >= Len(portfolio_analysis)
        THEN <<"High",
               "Portfolio has significant exposure to volatile assets. Consider diversification.">>
        ELSE IF QGt(avg_volatility, Dec(25, 0))
        THEN <<"Medium-High",
               "Above-average volatility. Monitor positions closely.">>
        ELSE IF QGt(avg_beta, Dec(1, 20))
        THEN <<"Medium",
               "Portfolio is more sensitive to market movements than average.">>
        ELSE <<"Low-Medium", "Portfolio has moderate risk exposure.">>

\* Lines 268-282: [overall_risk, risk_summary]
OverallRisk(portfolio_analysis, avg_volatility, avg_beta) ==
    LET high_risk_count == Len(SelectSeq(portfolio_analysis, IsHighRisk))
    IN  IF high_risk_count * 2 > Len(portfolio_analysis)
        THEN <<"High",
               "Portfolio has significant exposure to volatile assets. Consider diversification.">>
        ELSE IF QGt(avg_volatility, Dec(25, 0))
        THEN <<"Medium-High",
               "Above-average volatility. Monitor positions closely.">>
        ELSE IF QGt(avg_beta, Dec(1, 20))
        THEN <<"Medium",
               "Portfolio is more sensitive to market movements than average.">>
        ELSE <<"Low-Medium", "Portfolio has moderate risk exposure.">>

\* Lines 251-294: the loop and the report, on the filtered symbols.
RiskExposure(symbols, region, feeds) ==
    LET analyses == Analyses(symbols, feeds)
        portfolio_analysis == SelectSeq(analyses, NoErrorKey)
    IN  IF Raises(analyses)
        THEN [kind |-> "raised", exception |-> "IndexError"]
        ELSE IF Len(portfolio_analysis) = 0
        THEN [kind |-> "error",
              error |-> "Could not analyze any stocks in the portfolio"]
        ELSE
        LET avg_volatility ==
                Quot(TotalVolatility(portfolio_analysis), Len(portfolio_analysis))
            avg_beta ==
                Quot(TotalBeta(portfolio_analysis), Len(portfolio_analysis))
            overall == OverallRisk(portfolio_analysis, avg_volatility, avg_beta)
            high == SelectSeq(portfolio_analysis, IsHighRisk)
        IN  [kind |-> "report",
             region |-> IF region # <<>> /\ Len(region[1]) > 0
                        THEN region[1] ELSE <<"G","l","o","b","a","l">>,
             stocks_analyzed |-> Len(portfolio_analysis),
             stocks |-> portfolio_analysis,
             average_volatility |-> Round2Q(avg_volatility),
             average_beta |-> Round2Q(avg_beta),
             overall_risk_level |-> overall[1],
             risk_summary |-> overall[2],
             high_risk_positions |-> [i \in 1..Len(high) |-> high[i].symbol]]

analyze_risk_exposure(symbols, region, feeds) ==
    RiskExposure(RegionFilter(symbols, region), region, feeds)

---------------------------------------------------------------------------
(* get_portfolio_analytics *)

IsBullish(a) == a.trend_signal = "Bullish"

IsBearish(a) == a.trend_signal = "Bearish"

IsOverbought(a) == a.rsi_signal = "Overbought"

IsOversold(a) == a.rsi_signal = "Oversold"

\* A faulty sentiment that calls a tie Bullish; C6 does not hold of it.
PortfolioSentiment_TieBullish(bullish, bearish) ==
    IF bullish >= bearish THEN "Bullish"
    ELSE IF bearish > bullish THEN "Bearish"
    ELSE "Mixed"

PortfolioSentiment(bullish, bearish) ==
    IF bullish > bearish THEN "Bullish"
    ELSE IF bearish > bullish THEN "Bearish"
    ELSE "Mixed"

get_portfolio_analytics(symbols, feeds) ==
    IF Len(symbols) = 0
    THEN [kind |-> "error", error |-> "No symbols provided"]
    ELSE
    LET all == Analyses(symbols, feeds)
        analyses == SelectSeq(all, NoErrorKey)
    IN  IF Raises(all)
        THEN [kind |-> "raised", exception |-> "IndexError"]
        ELSE IF Len(analyses) = 0
        THEN [kind |-> "error", error |-> "Could not analyze any stocks"]
        ELSE
        LET bullish    == Len(SelectSeq(analyses, IsBullish))
            bearish    == Len(SelectSeq(analyses, IsBearish))
            overbought == Len(SelectSeq(analyses, IsOverbought))
            oversold   == Len(SelectSeq(analyses, IsOversold))
        IN  [kind |-> "report",
             total_positions |-> Len(analyses),
             bullish_trend |-> bullish,
             bearish_trend |-> bearish,
             neutral_trend |-> Len(analyses) - bullish - bearish,
             overbought_count |-> overbought,
             oversold_count |-> oversold,
             individual_analyses |-> analyses,
             portfolio_sentiment |-> PortfolioSentiment(bullish, bearish)]

---------------------------------------------------------------------------
(* Inputs: what the caller asks and what the price provider answers *)

\* The longest symbol list given to analyze_risk_exposure.
MaxRiskSymbols == 3

\* The longest symbol list given to get_portfolio_analytics.
MaxPositions == 4

SeqsUpTo(S, n) == UNION {[1..k -> S] : k \in 0..n}

\* A lower-case member of the Asia table, a member of the US table and a
\* member of the Europe table.
RiskPool == {<<"t","s","m">>, <<"M","S","F","T">>, <<"S","A","P">>}

\* get_portfolio_analytics reads nothing of a symbol: it only passes it on.
PortfolioPool == {<<"M","S","F","T">>}

Regions ==
    {<<>>, <<<<"A","s","i","a">>>>, <<<<"U","S">>>>, <<<<"A","m","e","r","i","c","a">>>>, <<<<"E","u","r","o","p","e">>>>, <<<<"A","f","r","i","c","a">>>>}

\* A non-empty history of `bars` daily bars and its trailing statistics.
\* iloc_mK is close.iloc[-K], the close K - 1 bars before the last one (read
\* only when the history has K bars).
Hist(bars, rsi, mean20, mean50, annualized) ==
    [fault |-> FALSE, bars |-> bars,
     last |-> F(100000), iloc_m2 |-> F(99000), iloc_m5 |-> F(98500),
     iloc_m6 |-> F(98000), iloc_m20 |-> F(96000), iloc_m21 |-> F(95000),
     rsi |-> rsi,
     mean |-> (20 :> mean20 @@ 50 :> mean50),
     std |-> (20 :> F(1500)),
     annualized |-> annualized]

\* The provider raises (network failure, unknown symbol).
Fault == [fault |-> TRUE, bars |-> 0]

\* The provider answers with no rows.
NoRows == [fault |-> FALSE, bars |-> 0]

\* The benchmark's history: `overlap` of its dates are dates of the subject.
Spy(bars, overlap, variance_zero, cov_over_var) ==
    [fault |-> FALSE, bars |-> bars, overlap |-> overlap,
     variance_zero |-> variance_zero, cov_over_var |-> cov_over_var]

BarCounts == {1, 5, 14, 20, 21, 50, 120}

RsiValues == {NaN, F(29999), F(30000), F(30001), F(69999), F(70000), F(70001)}

MeanPairs == {<<F(100000), F(100000)>>, <<F(100001), F(100000)>>,
              <<F(100000), F(100001)>>}

AnnualizedValues ==
    {F(19990), F(20000), F(20010), F(29990), F(30000), F(30004), F(30010)}

BetaValues == {F(990), F(1000), F(1010), F(1490), F(1500), F(1510)}

SpyAnswers ==
    {Fault, NoRows, Spy(120, 9, FALSE, F(1510)), Spy(120, 60, TRUE, F(1510))}
    \cup {Spy(120, 60, FALSE, b) : b \in BetaValues}

\* A history whose last close is `last` and whose 20-bar mean and standard
\* deviation are mean20 and std20.
Bands(bars, last, mean20, std20) ==
    [Hist(bars, F(50000), mean20, mean20, F(20000)) EXCEPT
        !.last = last, !.std = (20 :> std20)]

\* Last closes around the band thresholds of a 20-bar mean of 100.000: with a
\* standard deviation of 0 the thresholds are 98.000 and 102.000, with 1.000
\* both are 99.960, with 5.000 they are 107.800 and 91.800.
BandPrices ==
    {F(91799), F(91800), F(97000), F(98000), F(98001), F(99959), F(99960),
     F(99961), F(100000), F(107800), F(107801)}

BandDeviations == {F(0), F(1000), F(5000)}

BandFeeds ==
    {[stock |-> Bands(n, p, F(100000), s), spy |-> NoRows] :
        n \in {5, 20}, p \in BandPrices, s \in BandDeviations}

\* Subject and benchmark histories with 9 and with 10 paired returns, and
\* covariance / variance quotients that are not multiples of 0.01.
AlignFeeds ==
    {[stock |-> Hist(n, F(50000), F(100000), F(100000), F(20000)), spy |-> y] :
        n \in {10, 11, 120},
        y \in {Spy(120, 60, FALSE, F(1504)), Spy(120, 60, FALSE, F(1496)),
               Spy(120, 10, FALSE, F(1504)), Spy(11, 60, FALSE, F(1504)),
               Spy(10, 60, FALSE, F(1504))}}

\* What the provider may answer to one get_technical_summary call.
SummaryFeeds ==
    {[stock |-> h, spy |-> NoRows] : h \in {Fault, NoRows}}
    \cup {[stock |-> Hist(n, r, m[1], m[2], a), spy |-> y] :
            n \in BarCounts, r \in RsiValues, m \in MeanPairs,
            a \in AnnualizedValues, y \in SpyAnswers}
    \cup BandFeeds
    \cup AlignFeeds

\* The feeds the aggregators are run on: no data, a single bar, a few bars
\* (every windowed statistic undefined), and three full histories.
Empty  == [stock |-> NoRows, spy |-> Spy(120, 60, FALSE, F(1000))]

OneBar == [stock |-> Hist(1, NaN, NaN, NaN, NaN), spy |-> Spy(120, 0, FALSE, F(1000))]

Short  == [stock |-> Hist(5, NaN, NaN, NaN, NaN), spy |-> Spy(120, 4, FALSE, F(1000))]

\* volatility 20.00, beta 1.00, Bullish: risk Low
Calm   == [stock |-> Hist(120, F(55000), F(101000), F(100000), F(20000)),
           spy |-> Spy(120, 60, FALSE, F(1000))]

\* volatility 30.00, beta 1.20, Bearish: risk Medium
Mid    == [stock |-> Hist(120, F(25000), F(99000), F(100000), F(30000)),
           spy |-> Spy(120, 60, FALSE, F(1200))]

\* volatility 20.00, beta 1.60, Bullish: risk High
Hot    == [stock |-> Hist(120, F(75000), F(102000), F(100000), F(20000)),
           spy |-> Spy(120, 60, FALSE, F(1600))]

PortfolioFeeds == {Empty, OneBar, Short, Calm, Mid, Hot}

Requests ==
    {[op |-> "risk", symbols |-> ss, region |-> r] :
        ss \in SeqsUpTo(RiskPool, MaxRiskSymbols), r \in Regions}
    \cup {[op |-> "portfolio", symbols |-> ss, region |-> <<>>] :
        ss \in SeqsUpTo(PortfolioPool, MaxPositions)}
    \cup {[op |-> "summary", symbols |-> <<s>>, region |-> <<>>] :
        s \in RiskPool}

---------------------------------------------------------------------------
(* The state machine: one call of one entry point *)

Init ==
    /\ pc = "ready"
    /\ request \in Requests
    /\ selected = <<>>
    /\ provided = <<>>
    /\ outcome = [kind |-> "none"]

\* The feeds read before the call returned or raised.
Read(symbols, feeds) == SubSeq(feeds, 1, Consumed(Analyses(symbols, feeds)))

GetTechnicalSummary ==
    /\ pc = "ready"
    /\ request.op = "summary"
    /\ \E feed \in SummaryFeeds :
        /\ provided' = <<feed>>
        /\ outcome' = get_technical_summary(request.symbols[1], feed)
    /\ selected' = request.symbols
    /\ pc' = "done"
    /\ UNCHANGED request

AnalyzeRiskExposure ==
    /\ pc = "ready"
    /\ request.op = "risk"
    /\ selected' = RegionFilter(request.symbols, request.region)
    /\ \E feeds \in [1..Len(selected') -> PortfolioFeeds] :
        /\ provided' = Read(selected', feeds)
        /\ outcome' = analyze_risk_exposure(request.symbols, request.region, feeds)
    /\ pc' = "done"
    /\ UNCHANGED request

GetPortfolioAnalytics ==
    /\ pc = "ready"
    /\ request.op = "portfolio"
    /\ selected' = request.symbols
    /\ \E feeds \in [1..Len(request.symbols) -> PortfolioFeeds] :
        /\ provided' = Read(request.symbols, feeds)
        /\ outcome' = get_portfolio_analytics(request.symbols, feeds)
    /\ pc' = "done"
    /\ UNCHANGED request

Next == GetTechnicalSummary \/ AnalyzeRiskExposure \/ GetPortfolioAnalytics

Spec == Init /\ [][Next]_vars

\* One call of get_technical_summary alone.
InitSummary == Init /\ request.op = "summary"

SpecSummary == InitSummary /\ [][GetTechnicalSummary]_vars

---------------------------------------------------------------------------
(* The indicator functions called on their own.  calculate_rsi is computed    *)
(* on the close series itself (a sequence of whole prices), step by step as   *)
(* pandas does; the other functions are applied to histories of 0 bars and    *)
(* more.                                                                      *)

\* The longest close series given to calculate_rsi.
MaxBars == 4

Closes == {1, 2, 3}

RsiPeriods == {2, 3}

\* prices.diff(): no difference for the first price (<<>>), then p[i] - p[i-1]
Diff(prices) ==
    [i \in 1..Len(prices) |-> IF i = 1 THEN <<>> ELSE <<prices[i] - prices[i - 1]>>]

\* delta.where(delta > 0, 0): a difference that is missing or not positive
\* becomes 0
WherePositive(delta) ==
    [i \in 1..Len(delta) |->
        IF delta[i] # <<>> /\ delta[i][1] > 0 THEN delta[i][1] ELSE 0]

\* -delta.where(delta < 0, 0)
NegatedWhereNegative(delta) ==
    [i \in 1..Len(delta) |->
        IF delta[i] # <<>> /\ delta[i][1] < 0 THEN 0 - delta[i][1] ELSE 0]

RECURSIVE WindowSum(_, _, _)
WindowSum(xs, from, to) ==
    IF from > to THEN 0 ELSE xs[to] + WindowSum(xs, from, to - 1)

\* xs.rolling(window).mean(): <<>> (NaN) until the window is full, then the
\* mean as <<sum, window>>
Rolling(xs, window) ==
    [i \in 1..Len(xs) |->
        IF i >= window THEN <<WindowSum(xs, i - window + 1, i), window>> ELSE <<>>]

\* gain / loss in floating point: x / 0 is infinite for x > 0 and NaN for 0
RelativeStrength(gain, loss) ==
    IF gain = <<>> \/ loss = <<>> THEN [kind |-> "nan"]
    ELSE IF loss[1] = 0
         THEN IF gain[1] = 0 THEN [kind |-> "nan"] ELSE [kind |-> "inf"]
         ELSE [kind |-> "num", num |-> gain[1], den |-> loss[1]]

\* 100 - (100 / (1 + rs)), in thousandths
RsiOf(rs) ==
    IF rs.kind = "nan" THEN NaN
    ELSE IF rs.kind = "inf" THEN F(100000)
    ELSE F(100000 - RoundHalfEven(100000 * rs.den, rs.den + rs.num))

\* calculate_rsi on a sequence of prices: the RSI series
RsiSeries(prices, period) ==
    LET delta == Diff(prices)
        gain  == Rolling(WherePositive(delta), period)
        loss  == Rolling(NegatedWhereNegative(delta), period)
    IN  [i \in 1..Len(prices) |-> RsiOf(RelativeStrength(gain[i], loss[i]))]

\* Histories of 0, 1, 2 bars and around the windows of 20 and 50 bars.  A
\* request holds the close series as `prices` for calculate_rsi and as
\* `history` for the other functions.
SeriesLengths == {0, 1, 2, 10, 11, 19, 20, 21, 49, 50}

ShortSeries ==
    {Hist(n, F(50000), F(100000), F(100000), F(20000)) : n \in SeriesLengths}

IndicatorRequests ==
    {[op |-> "calculate_rsi", prices |-> ps, period |-> p, history |-> NoRows] :
        ps \in SeqsUpTo(Closes, MaxBars), p \in RsiPeriods}
    \cup {[op |-> f, prices |-> <<>>, period |-> 0, history |-> h] :
            f \in {"calculate_moving_averages", "calculate_bollinger_bands",
                   "calculate_volatility", "calculate_beta"},
            h \in ShortSeries}

InitIndicators ==
    /\ pc = "ready"
    /\ request \in IndicatorRequests
    /\ selected = <<>>
    /\ provided = <<>>
    /\ outcome = [kind |-> "none"]

CalculateRsi ==
    /\ pc = "ready"
    /\ request.op = "calculate_rsi"
    /\ outcome' = [kind |-> "returned",
                   value |-> RsiSeries(request.prices, request.period)]
    /\ pc' = "done"
    /\ UNCHANGED <<request, selected, provided>>

CalculateMovingAverages ==
    /\ pc = "ready"
    /\ request.op = "calculate_moving_averages"
    /\ outcome' = [kind |-> "returned",
                   value |-> calculate_moving_averages(request.history, 20, 50)]
    /\ pc' = "done"
    /\ UNCHANGED <<request, selected, provided>>

CalculateBollingerBands ==
    /\ pc = "ready"
    /\ request.op = "calculate_bollinger_bands"
    /\ outcome' = [kind |-> "returned",
                   value |-> calculate_bollinger_bands(request.history, 20, 2)]
    /\ pc' = "done"
    /\ UNCHANGED <<request, selected, provided>>

CalculateVolatility ==
    /\ pc = "ready"
    /\ request.op = "calculate_volatility"
    /\ LET vol == calculate_volatility(request.history, 20)
       IN  outcome' = IF vol.raised
                      THEN [kind |-> "raised", exception |-> "IndexError"]
                      ELSE [kind |-> "returned", value |-> vol.value]
    /\ pc' = "done"
    /\ UNCHANGED <<request, selected, provided>>

\* The benchmark has every date of the subject.
CalculateBeta ==
    /\ pc = "ready"
    /\ request.op = "calculate_beta"
    /\ \E b \in BetaValues :
        outcome' = [kind |-> "returned",
                    value |-> calculate_beta(request.history,
                                             Spy(120, 60, FALSE, b), 60)]
    /\ pc' = "done"
    /\ UNCHANGED <<request, selected, provided>>

NextIndicators ==
    \/ CalculateRsi
    \/ CalculateMovingAverages
    \/ CalculateBollingerBands
    \/ CalculateVolatility
    \/ CalculateBeta

SpecIndicators == InitIndicators /\ [][NextIndicators]_vars

---------------------------------------------------------------------------
(* answer_question (src/agents/language_agent.py): the routing of a question  *)
(* between the market-data agent, the retriever and the language model.  A    *)
(* question is a sequence of characters.  The three collaborators are         *)
(* external: what each answers is drawn when it is called, and every call is  *)
(* appended to `provided` as [callee, status].                                *)

MARKET_DATA_KEYWORDS ==
    <<<<"p","r","i","c","e">>,
      <<"s","t","o","c","k"," ","p","r","i","c","e">>,
      <<"s","h","a","r","e"," ","p","r","i","c","e">>,
      <<"c","u","r","r","e","n","t"," ","p","r","i","c","e">>,
      <<"t","r","a","d","i","n","g"," ","a","t">>,
      <<"t","o","d","a","y">>,
      <<"n","o","w">>,
      <<"c","u","r","r","e","n","t">>,
      <<"l","a","t","e","s","t">>,
      <<"l","i","v","e">>,
      <<"r","e","a","l","-","t","i","m","e">>,
      <<"m","a","r","k","e","t"," ","c","a","p">>,
      <<"v","o","l","u","m","e">>,
      <<"p","e"," ","r","a","t","i","o">>,
      <<"e","p","s">>,
      <<"n","i","f","t","y">>,
      <<"s","e","n","s","e","x">>,
      <<"d","o","w">>,
      <<"n","a","s","d","a","q">>,
      <<"s","&","p">>,
      <<"h","o","w"," ","m","u","c","h"," ","i","s">>,
      <<"w","h","a","t"," ","i","s"," ","t","h","e"," ","p","r","i","c","e">>,
      <<"p","r","i","c","e"," ","o","f">>,
      <<"m","o","v","e","m","e","n","t">>,
      <<"u","p">>,
      <<"d","o","w","n">>,
      <<"g","a","i","n","e","d">>,
      <<"l","o","s","t">>>>

STOCK_PATTERNS ==
    <<<<"i","n","f","o","s","y","s">>,
      <<"t","c","s">>,
      <<"r","e","l","i","a","n","c","e">>,
      <<"w","i","p","r","o">>,
      <<"h","c","l">>,
      <<"h","d","f","c">>,
      <<"i","c","i","c","i">>,
      <<"s","b","i">>,
      <<"a","i","r","t","e","l">>,
      <<"b","h","a","r","t","i">>,
      <<"k","o","t","a","k">>,
      <<"a","x","i","s">>,
      <<"m","a","r","u","t","i">>,
      <<"t","a","t","a"," ","m","o","t","o","r","s">>,
      <<"t","a","t","a"," ","s","t","e","e","l">>,
      <<"i","t","c">>,
      <<"a","s","i","a","n"," ","p","a","i","n","t","s">>,
      <<"b","a","j","a","j">>,
      <<"s","u","n"," ","p","h","a","r","m","a">>,
      <<"t","e","c","h"," ","m","a","h","i","n","d","r","a">>,
      <<"n","t","p","c">>,
      <<"o","n","g","c">>,
      <<"a","p","p","l","e">>,
      <<"m","i","c","r","o","s","o","f","t">>,
      <<"g","o","o","g","l","e">>,
      <<"a","m","a","z","o","n">>,
      <<"t","e","s","l","a">>,
      <<"n","v","i","d","i","a">>,
      <<"m","e","t","a">>,
      <<"n","e","t","f","l","i","x">>,
      <<"i","n","t","e","l">>,
      <<"a","m","d">>,
      <<"t","s","m","c">>,
      <<"q","u","a","l","c","o","m","m">>,
      <<"a","d","o","b","e">>,
      <<"s","a","l","e","s","f","o","r","c","e">>,
      <<"c","i","s","c","o">>,
      <<"o","r","a","c","l","e">>,
      <<"i","b","m">>,
      <<"p","a","y","p","a","l">>,
      <<"u","b","e","r">>,
      <<"z","o","o","m">>,
      <<"s","p","o","t","i","f","y">>,
      <<"n","i","f","t","y">>,
      <<"s","e","n","s","e","x">>,
      <<"d","o","w">>,
      <<"n","a","s","d","a","q">>,
      <<"s","&","p">>>>

Questions ==
    {<<"p","r","i","c","e"," ","o","f"," ","I","n","f","o","s","y","s">>,
     <<"W","h","a","t"," ","d","o","e","s"," ","I","n","f","o","s","y","s"," ","d","o","?">>,
     <<"W","h","a","t"," ","i","s"," ","t","h","e"," ","p","r","i","c","e","?">>,
     <<"$","A","A","P","L"," ","t","o","d","a","y">>,
     <<"E","x","p","l","a","i","n"," ","E","B","I","T","D","A","X">>,
     <<"E","x","p","l","a","i","n"," ","d","i","v","i","d","e","n","d","s">>,
     <<"s","u","p","p","l","y"," ","c","h","a","i","n">>,
     <<"D","o","w"," ","o","r"," ","T","C","S"," ","n","o","w">>,
     <<"i","s"," ","Q"," ","a"," ","t","i","c","k","e","r"," ","u","p">>,
     <<"T","e","s","l","a"," ","s","h","a","r","e"," ","p","r","i","c","e">>,
     <<"I","B","M">>,
     <<"l","a","t","e","s","t">>}

\* Python's truth value of the list `keyword in question_lower for keyword ...`
is_market_data_query(question) ==
    LET question_lower == lower(question)
    IN  \E k \in 1..Len(MARKET_DATA_KEYWORDS) :
            Contains(MARKET_DATA_KEYWORDS[k], question_lower)

IsUpperChar(c) == \E i \in 1..26 : UpperCase[i] = c

\* re.search(r'\$?([A-Z]{2,6})', question): group 1 of the leftmost match, the
\* first run of two capital letters, taken up to six letters long
TickerMatch(question) ==
    LET starts == {i \in 1..(Len(question) - 1) :
                        IsUpperChar(question[i]) /\ IsUpperChar(question[i + 1])}
    IN  IF starts = {} THEN <<>>
        ELSE
        LET i == CHOOSE s \in starts : \A t \in starts : s <= t
            Run(k) == \A j \in 0..(k - 1) :
                        i + j <= Len(question) /\ IsUpperChar(question[i + j])
            n == CHOOSE k \in 2..6 : Run(k) /\ (k = 6 \/ ~Run(k + 1))
        IN  <<SubSeq(question, i, i + n - 1)>>

\* extract_stock_name: <<>> is None
extract_stock_name(question) ==
    LET question_lower == lower(question)
        hits == {k \in 1..Len(STOCK_PATTERNS) :
                    Contains(STOCK_PATTERNS[k], question_lower)}
    IN  IF hits # {}
        THEN <<STOCK_PATTERNS[CHOOSE k \in hits : \A h \in hits : k <= h]>>
        ELSE TickerMatch(question)

\* What get_realtime_price may return: price data, or that the data is
\* unavailable (no history, or an exception it caught).
PriceAnswers ==
    {[status |-> "success", price |-> Dec(100, 0)],
     [status |-> "success", price |-> Dec(0, 0)],
     [status |-> "data_unavailable", price |-> NaN]}

\* format_price_response of a successful answer
format_price_response(data) ==
    IF data.status # "success"
    THEN <<"Market data is currently unavailable.">>
    ELSE <<"REAL-TIME MARKET DATA (from Yahoo Finance):", data.price>>

\* What retrieve_top_chunks may return: no chunk or some chunks
ChunkLists == {<<>>, <<"chunk">>, <<"chunk", "chunk">>}

\* Lines 139-145: the context given to the language model
full_context(market_context, rag_context) ==
    IF market_context # <<>>
    THEN <<market_context[1], "ADDITIONAL CONTEXT:",
           IF rag_context # <<>> THEN rag_context
           ELSE <<"No additional data available.">>>>
    ELSE IF rag_context # <<>> THEN rag_context
         ELSE <<"No specific data available.">>

\* A faulty branch that goes on to the retriever whatever the market-data
\* agent answered; C20 does not hold of it.
AfterPrice_NoBypass(price_data) == "rag"

\* Lines 120-127: where answer_question goes after get_realtime_price
AfterPrice(price_data) ==
    IF price_data.status = "success" THEN "rag" ELSE "done"

InitAnswer ==
    /\ pc = "ready"
    /\ request \in {[op |-> "answer_question", question |-> q] : q \in Questions}
    /\ selected = [market_context |-> <<>>, rag_context |-> <<>>]
    /\ provided = <<>>
    /\ outcome = [kind |-> "none"]

\* Lines 104-114 and 129-132: the query type and the stock name decide the
\* route; a market query without a stock name is answered at once.
DetectQueryType ==
    /\ pc = "ready"
    /\ LET requires_market_data == is_market_data_query(request.question)
           stock_name == extract_stock_name(request.question)
       IN  IF requires_market_data /\ stock_name # <<>>
           THEN pc' = "market" /\ UNCHANGED outcome
           ELSE IF requires_market_data
           THEN /\ pc' = "done"
                /\ outcome' = [kind |-> "answer", text |->
                      "Please specify which stock or index you'd like information about."]
           ELSE pc' = "rag" /\ UNCHANGED outcome
    /\ UNCHANGED <<request, selected, provided>>

\* Lines 117-127: the market-data agent is called; without a successful answer
\* the function returns the fixed message.
CallMarketDataAgent ==
    /\ pc = "market"
    /\ \E price_data \in PriceAnswers :
        /\ provided' = Append(provided,
              [callee |-> "get_realtime_price", status |-> price_data.status])
        /\ pc' = AfterPrice(price_data)
        /\ IF pc' = "done"
           THEN /\ outcome' = [kind |-> "answer",
                               text |-> "Market data is currently unavailable."]
                /\ UNCHANGED selected
           ELSE /\ selected' = [selected EXCEPT !.market_context =
                        IF price_data.status = "success"
                        THEN <<format_price_response(price_data)>> ELSE <<>>]
                /\ UNCHANGED outcome
    /\ UNCHANGED request

\* Lines 135-136: the retriever is called; an exception of it leaves
\* answer_question.
RetrieveTopChunks ==
    /\ pc = "rag"
    /\ \/ \E relevant_chunks \in ChunkLists :
            /\ provided' = Append(provided,
                  [callee |-> "retrieve_top_chunks", status |-> "returned"])
            /\ selected' = [selected EXCEPT !.rag_context = relevant_chunks]
            /\ pc' = "llm"
            /\ UNCHANGED outcome
       \/ /\ provided' = Append(provided,
                  [callee |-> "retrieve_top_chunks", status |-> "raised"])
          /\ outcome' = [kind |-> "raised", exception |-> "retriever"]
          /\ pc' = "done"
          /\ UNCHANGED selected
    /\ UNCHANGED request

\* Lines 139-167: the language model is invoked on the context built and its
\* answer is returned; an exception of it leaves answer_question.
InvokeLanguageModel ==
    /\ pc = "llm"
    /\ \/ /\ provided' = Append(provided,
                  [callee |-> "llm.invoke", status |-> "returned"])
          /\ outcome' = [kind |-> "answer", text |->
                <<"response.content", full_context(selected.market_context,
                                                    selected.rag_context)>>]
       \/ /\ provided' = Append(provided,
                  [callee |-> "llm.invoke", status |-> "raised"])
          /\ outcome' = [kind |-> "raised", exception |-> "llm"]
    /\ pc' = "done"
    /\ UNCHANGED <<request, selected>>

NextAnswer ==
    \/ DetectQueryType
    \/ CallMarketDataAgent
    \/ RetrieveTopChunks
    \/ InvokeLanguageModel

SpecAnswer == InitAnswer /\ [][NextAnswer]_vars

---------------------------------------------------------------------------
(* Vocabulary of the properties *)

Returned == pc = "done"

RiskCall == Returned /\ request.op = "risk"

PortfolioCall == Returned /\ request.op = "portfolio"

SummaryCall == Returned /\ request.op = "summary"

AggregateCall == RiskCall \/ PortfolioCall

\* The entries of a report and the count it states.
Entries == IF request.op = "risk" THEN outcome.stocks ELSE outcome.individual_analyses

EntryCount ==
    IF request.op = "risk" THEN outcome.stocks_analyzed ELSE outcome.total_positions

\* The provider gave a non-empty history for the i-th analysed symbol.
HasData(i) == ~provided[i].stock.fault /\ provided[i].stock.bars > 0

\* The summary of the i-th analysed symbol was built: the provider was asked,
\* and get_technical_summary returned a summary (not an error record, and it
\* did not raise).
Succeeded(i) ==
    /\ i <= Len(provided)
    /\ get_technical_summary(selected[i], provided[i]).kind = "summary"

\* The indices of the successful symbols, in request order.
SuccessfulIndices ==
    SelectSeq([i \in 1..Len(selected) |-> i], Succeeded)

RECURSIVE IntSum(_, _)
IntSum(xs, n) == IF n = 0 THEN 0 ELSE xs[n].v + IntSum(xs, n - 1)

\* The mean of the floats xs rounded to two decimals; NaN when one is NaN.
MeanOf(xs) ==
    IF \A i \in 1..Len(xs) : IsNum(xs[i])
    THEN F(RoundHalfEven(IntSum(xs, Len(xs)), Len(xs) * 10) * 10)
    ELSE NaN

\* mean(xs) > w.ff, false when a value is NaN
MeanExceeds(xs, w, f) ==
    /\ \A i \in 1..Len(xs) : IsNum(xs[i])
    /\ IntSum(xs, Len(xs)) > (w * 100 + f) * 10 * Len(xs)

\* x > w.ff, false for NaN
Exceeds(x, w, f) == IsNum(x) /\ x.v > (w * 100 + f) * 10

Below(x, w, f) == IsNum(x) /\ x.v < (w * 100 + f) * 10

Severity(level) == CASE level = "Low" -> 1 [] level = "Medium" -> 2 [] level = "High" -> 3

---------------------------------------------------------------------------
(* C1: a report of analyze_risk_exposure or get_portfolio_analytics lists     *)
(* exactly the symbols whose summary succeeded, in request order: no entry is *)
(* an error record, stocks_analyzed / total_positions is the number of        *)
(* successful symbols, and average_volatility and average_beta are the means  *)
(* over the successful symbols only.                                          *)
C1_ReportListsSuccessfulOnly ==
    (AggregateCall /\ outcome.kind = "report") =>
        LET ok == SuccessfulIndices
            built == [k \in 1..Len(ok) |->
                        get_technical_summary(selected[ok[k]], provided[ok[k]])]
        IN  /\ Len(provided) = Len(selected)
            /\ \A i \in 1..Len(selected) : Succeeded(i) <=> HasData(i)
            /\ EntryCount = Len(ok)
            /\ Len(Entries) = Len(ok)
            /\ \A k \in 1..Len(ok) :
                /\ Entries[k].kind = "summary"
                /\ "error" \notin DOMAIN Entries[k]
                /\ Entries[k] = built[k]
                /\ Entries[k].symbol = selected[ok[k]]
            /\ request.op = "risk" =>
                /\ outcome.average_volatility
                     = MeanOf([k \in 1..Len(ok) |-> built[k].volatility])
                /\ outcome.average_beta
                     = MeanOf([k \in 1..Len(ok) |-> built[k].beta])

\* Three symbols requested, one without data: a report of exactly two entries.
C1_Witness ==
    /\ AggregateCall
    /\ outcome.kind = "report"
    /\ Len(selected) = 3
    /\ Cardinality({i \in 1..3 : ~HasData(i)}) = 1
    /\ EntryCount = 2

(* C2: analyze_risk_exposure and get_portfolio_analytics never let an         *)
(* exception escape, whatever the price histories (empty, one bar, a few      *)
(* bars, full length): they return a report or a single error value.          *)
C2_NoExceptionEscapes ==
    AggregateCall => outcome.kind \in {"report", "error"}

(* C3: analyze_risk_exposure returns an error value if and only if none of    *)
(* the symbols it analyses produced a successful summary, and                 *)
(* get_portfolio_analytics returns one when every symbol of a non-empty list  *)
(* fails.                                                                     *)
C3_ErrorIffNoneSucceeded ==
    /\ RiskCall =>
        (outcome.kind = "error" <=> \A i \in 1..Len(selected) : ~Succeeded(i))
    /\ (PortfolioCall /\ Len(request.symbols) > 0) =>
        ((\A i \in 1..Len(selected) : ~Succeeded(i)) => outcome.kind = "error")

\* The region named in the request, in lower case ("" for None).
RegionName == IF request.region = <<>> THEN <<>> ELSE lower(request.region[1])

\* The table and the default symbol of a recognised region.
TableOf(name) ==
    CASE name = <<"a","s","i","a">> -> asia_tech_stocks
      [] name \in {<<"u","s">>, <<"a","m","e","r","i","c","a">>} -> us_tech_stocks
      [] name = <<"e","u","r","o","p","e">> -> europe_stocks

DefaultOf(name) ==
    CASE name = <<"a","s","i","a">> -> <<"T","S","M">>
      [] name \in {<<"u","s">>, <<"a","m","e","r","i","c","a">>} -> <<"A","A","P","L">>
      [] name = <<"e","u","r","o","p","e">> -> <<"A","S","M","L">>

\* s is a member of the table, whatever its case.
IsMember(s, table) == \E j \in 1..Len(table) : lower(table[j]) = lower(s)

\* The elements of ys that are members of the table, in order.
RECURSIVE KeepOnly(_, _)
KeepOnly(ys, table) ==
    IF ys = <<>> THEN <<>>
    ELSE IF IsMember(Head(ys), table)
         THEN <<Head(ys)>> \o KeepOnly(Tail(ys), table)
         ELSE KeepOnly(Tail(ys), table)

(* C4: with a recognised region (Asia, US / America, Europe) the symbols      *)
(* analyze_risk_exposure analyses are exactly the input symbols that are      *)
(* members of the region's table, case-insensitively and in input order; when *)
(* no input symbol is a member they are the region's single default symbol    *)
(* (<<"T","S","M">>, <<"A","A","P","L">>, <<"A","S","M","L">>); the list is never empty.                                *)
C4_RegionFilter ==
    (RiskCall /\ RegionName \in {<<"a","s","i","a">>, <<"u","s">>, <<"a","m","e","r","i","c","a">>, <<"e","u","r","o","p","e">>}) =>
        LET members == KeepOnly(request.symbols, TableOf(RegionName))
        IN  /\ selected # <<>>
            /\ members # <<>> => selected = members
            /\ members = <<>> => selected = <<DefaultOf(RegionName)>>
            /\ Len(provided) >= 1
            /\ (outcome.kind = "report" =>
                    \A k \in 1..Len(outcome.stocks) :
                        InList(outcome.stocks[k].symbol, selected))

\* region = "Asia" with symbols = ["<<"M","S","F","T">>"]: <<"T","S","M">> is analysed, <<"M","S","F","T">> is not.
C4_Witness ==
    /\ RiskCall
    /\ RegionName = <<"a","s","i","a">>
    /\ request.symbols = <<<<"M","S","F","T">>>>
    /\ selected = <<<<"T","S","M">>>>
    /\ outcome.kind = "report"
    /\ outcome.stocks[1].symbol = <<"T","S","M">>

\* A lower-case input symbol kept by the Asia filter.
C4_WitnessCaseInsensitive ==
    /\ RiskCall
    /\ RegionName = <<"a","s","i","a">>
    /\ selected = <<<<"t","s","m">>, <<"t","s","m">>>>
    /\ Len(request.symbols) = 3

(* C5: for every non-empty list of successful summaries the overall risk of   *)
(* analyze_risk_exposure is given by the first rule that matches: a strict    *)
(* majority of "High" summaries gives "High"; else an average volatility > 25 *)
(* gives "Medium-High"; else an average beta > 1.2 gives "Medium"; else       *)
(* "Low-Medium"; and risk_summary is the text of that branch.                 *)
C5_OverallRisk ==
    (RiskCall /\ outcome.kind = "report") =>
        LET stocks == outcome.stocks
            n      == Len(stocks)
            high   == Cardinality({i \in 1..n : stocks[i].risk_level = "High"})
            vols   == [i \in 1..n |-> stocks[i].volatility]
            betas  == [i \in 1..n |-> stocks[i].beta]
            level  == IF 2 * high > n THEN "High"
                      ELSE IF MeanExceeds(vols, 25, 0) THEN "Medium-High"
                      ELSE IF MeanExceeds(betas, 1, 20) THEN "Medium"
                      ELSE "Low-Medium"
            text   == CASE level = "High" ->
                            "Portfolio has significant exposure to volatile assets. Consider diversification."
                        [] level = "Medium-High" ->
                            "Above-average volatility. Monitor positions closely."
                        [] level = "Medium" ->
                            "Portfolio is more sensitive to market movements than average."
                        [] level = "Low-Medium" ->
                            "Portfolio has moderate risk exposure."
        IN  /\ n > 0
            /\ outcome.overall_risk_level = level
            /\ outcome.risk_summary = text

\* Two summaries, one of them "High" (no strict majority), an average
\* volatility of 20 and an average beta of 1.3: "Medium".
C5_Witness ==
    /\ RiskCall
    /\ outcome.kind = "report"
    /\ outcome.stocks_analyzed = 2
    /\ Cardinality({i \in 1..2 : outcome.stocks[i].risk_level = "High"}) = 1
    /\ outcome.average_volatility = Dec(20, 0)
    /\ outcome.average_beta = Dec(1, 30)
    /\ outcome.overall_risk_level = "Medium"

\* An average volatility of exactly 25 and an average beta of exactly 1.2
\* fall through to "Low-Medium".
C5_WitnessBoundary ==
    /\ RiskCall
    /\ outcome.kind = "report"
    /\ outcome.overall_risk_level = "Low-Medium"
    /\ \/ outcome.average_volatility = Dec(25, 0)
       \/ outcome.average_beta = Dec(1, 20)

(* C6: get_portfolio_analytics reports portfolio_sentiment "Bullish" exactly  *)
(* when more summaries are Bullish than Bearish, "Bearish" exactly when more  *)
(* are Bearish than Bullish and "Mixed" when the counts are equal (3 against  *)
(* 1 is Bullish, 2 against 2 is Mixed); bullish_trend + bearish_trend +       *)
(* neutral_trend is total_positions.                                          *)
C6_PortfolioSentiment ==
    (PortfolioCall /\ outcome.kind = "report") =>
        LET as == outcome.individual_analyses
            bullish == Cardinality({i \in 1..Len(as) : as[i].trend_signal = "Bullish"})
            bearish == Cardinality({i \in 1..Len(as) : as[i].trend_signal = "Bearish"})
        IN  /\ outcome.bullish_trend = bullish
            /\ outcome.bearish_trend = bearish
            /\ outcome.portfolio_sentiment = "Bullish" <=> bullish > bearish
            /\ outcome.portfolio_sentiment = "Bearish" <=> bearish > bullish
            /\ outcome.portfolio_sentiment = "Mixed" <=> bullish = bearish
            /\ (bullish = 3 /\ bearish = 1) => outcome.portfolio_sentiment = "Bullish"
            /\ (bullish = 2 /\ bearish = 2) => outcome.portfolio_sentiment = "Mixed"
            /\ outcome.neutral_trend >= 0
            /\ outcome.bullish_trend + outcome.bearish_trend + outcome.neutral_trend
                 = outcome.total_positions

\* Two Bullish against two Bearish summaries: "Mixed".
C6_Witness ==
    /\ PortfolioCall
    /\ outcome.kind = "report"
    /\ outcome.bullish_trend = 2
    /\ outcome.bearish_trend = 2
    /\ outcome.portfolio_sentiment = "Mixed"

\* Three Bullish against one Bearish summary: "Bullish".
C6_WitnessBullish ==
    /\ PortfolioCall
    /\ outcome.kind = "report"
    /\ outcome.bullish_trend = 3
    /\ outcome.bearish_trend = 1
    /\ outcome.portfolio_sentiment = "Bullish"

\* What get_technical_summary read for the summary it returned.
Close == get_stock_data(provided[1].stock)

LastRsi == calculate_rsi(Close, 14)

LastSmaShort == calculate_moving_averages(Close, 20, 50).sma_short

LastSmaLong == calculate_moving_averages(Close, 20, 50).sma_long

SummaryReturned == SummaryCall /\ outcome.kind = "summary"

(* C7: the risk_level of a summary is "High" when volatility > 30 or          *)
(* beta > 1.5, otherwise "Medium" when volatility > 20 or beta > 1.0,         *)
(* otherwise "Low"; the comparisons are strict: volatility 30 with beta 1.5   *)
(* is "Medium", volatility 20 with beta 1.0 is "Low".                         *)
C7_RiskLevel ==
    SummaryReturned =>
        LET v == outcome.volatility
            b == outcome.beta
        IN  /\ (Exceeds(v, 30, 0) \/ Exceeds(b, 1, 50)) => outcome.risk_level = "High"
            /\ (~Exceeds(v, 30, 0) /\ ~Exceeds(b, 1, 50)
                  /\ (Exceeds(v, 20, 0) \/ Exceeds(b, 1, 0)))
                    => outcome.risk_level = "Medium"
            /\ (~Exceeds(v, 20, 0) /\ ~Exceeds(b, 1, 0)) => outcome.risk_level = "Low"
            /\ (v = Dec(30, 0) /\ b = Dec(1, 50)) => outcome.risk_level = "Medium"
            /\ (v = Dec(20, 0) /\ b = Dec(1, 0)) => outcome.risk_level = "Low"

\* Volatility exactly 30 with beta exactly 1.5: "Medium".
C7_Witness ==
    /\ SummaryReturned
    /\ outcome.volatility = Dec(30, 0)
    /\ outcome.beta = Dec(1, 50)
    /\ outcome.risk_level = "Medium"

\* The volatilities and betas a summary can carry.
Volatilities == {Round2(a) : a \in AnnualizedValues}

Betas == {Round2(b) : b \in BetaValues} \cup {Dec(1, 0)}

(* C8: the risk level is monotonic: a higher volatility with the same beta,   *)
(* or a higher beta with the same volatility, never gives a lower severity    *)
(* (Low < Medium < High).                                                     *)
C8_RiskLevelMonotonic ==
    (SummaryReturned /\ IsNum(outcome.volatility) /\ IsNum(outcome.beta)) =>
        /\ \A v \in Volatilities :
              v.v >= outcome.volatility.v =>
                Severity(risk_level(v, outcome.beta)) >= Severity(outcome.risk_level)
        /\ \A b \in Betas :
              b.v >= outcome.beta.v =>
                Severity(risk_level(outcome.volatility, b)) >= Severity(outcome.risk_level)
        /\ \A v \in Volatilities :
              v.v <= outcome.volatility.v =>
                Severity(risk_level(v, outcome.beta)) <= Severity(outcome.risk_level)
        /\ \A b \in Betas :
              b.v <= outcome.beta.v =>
                Severity(risk_level(outcome.volatility, b)) <= Severity(outcome.risk_level)

\* A "Low" summary that a higher volatility alone, and a higher beta alone,
\* would make "High".
C8_Witness ==
    /\ SummaryReturned
    /\ outcome.risk_level = "Low"
    /\ \E v \in Volatilities :
          v.v > outcome.volatility.v /\ risk_level(v, outcome.beta) = "High"
    /\ \E b \in Betas :
          b.v > outcome.beta.v /\ risk_level(outcome.volatility, b) = "High"

(* C9: the RSI signal is "Overbought" when the last RSI is > 70, "Oversold"   *)
(* when it is < 30 and "Neutral" otherwise; an RSI of exactly 70 or exactly   *)
(* 30 is "Neutral".                                                           *)
C9_RsiSignal ==
    SummaryReturned =>
        /\ outcome.rsi_signal = "Overbought" <=> Exceeds(LastRsi, 70, 0)
        /\ outcome.rsi_signal = "Oversold" <=> Below(LastRsi, 30, 0)
        /\ outcome.rsi_signal = "Neutral"
             <=> (~Exceeds(LastRsi, 70, 0) /\ ~Below(LastRsi, 30, 0))
        /\ LastRsi \in {Dec(70, 0), Dec(30, 0)} => outcome.rsi_signal = "Neutral"

\* A last RSI of exactly 70: "Neutral".
C9_Witness ==
    /\ SummaryReturned
    /\ LastRsi = Dec(70, 0)
    /\ outcome.rsi_signal = "Neutral"

(* C10: the trend signal is "Bullish" when the last short moving average is   *)
(* above the last long one, "Bearish" when it is below, and "Neutral" when    *)
(* they are equal.                                                            *)
C10_TrendSignal ==
    SummaryReturned =>
        /\ outcome.trend_signal = "Bullish"
             <=> (IsNum(LastSmaShort) /\ IsNum(LastSmaLong)
                    /\ LastSmaShort.v > LastSmaLong.v)
        /\ outcome.trend_signal = "Bearish"
             <=> (IsNum(LastSmaShort) /\ IsNum(LastSmaLong)
                    /\ LastSmaShort.v < LastSmaLong.v)
        /\ (IsNum(LastSmaShort) /\ LastSmaShort = LastSmaLong)
             => outcome.trend_signal = "Neutral"

\* Both moving averages defined and equal: "Neutral".
C10_Witness ==
    /\ SummaryReturned
    /\ IsNum(LastSmaShort)
    /\ LastSmaShort = LastSmaLong
    /\ outcome.trend_signal = "Neutral"

\* The bands get_technical_summary computed for the summary it returned.
LastBands == calculate_bollinger_bands(Close, 20, 2)

\* price > band * 0.98 and price < band * 1.02, false for an undefined band
AboveUpperThreshold == IsNum(LastBands.upper) /\ Close.last.v * 100 > LastBands.upper.v * 98

BelowLowerThreshold == IsNum(LastBands.lower) /\ Close.last.v * 100 < LastBands.lower.v * 102

(* C11: the Bollinger signal is "Near Upper" when the current price is above  *)
(* 0.98 times the upper band; otherwise "Near Lower" when it is below 1.02    *)
(* times the lower band; otherwise "Within Bands".  The upper test wins when  *)
(* both hold (narrow bands), and a price equal to a threshold falls through   *)
(* to the next branch.                                                        *)
C11_BollingerSignal ==
    SummaryReturned =>
        /\ outcome.bollinger_signal = "Near Upper" <=> AboveUpperThreshold
        /\ outcome.bollinger_signal = "Near Lower"
             <=> (~AboveUpperThreshold /\ BelowLowerThreshold)
        /\ outcome.bollinger_signal = "Within Bands"
             <=> (~AboveUpperThreshold /\ ~BelowLowerThreshold)
        /\ (IsNum(LastBands.upper) /\ Close.last.v * 100 = LastBands.upper.v * 98)
             => outcome.bollinger_signal # "Near Upper"
        /\ (IsNum(LastBands.lower) /\ Close.last.v * 100 = LastBands.lower.v * 102)
             => outcome.bollinger_signal # "Near Lower"

\* Narrow bands: the price is above the upper threshold and below the lower
\* one, and the signal is "Near Upper".
C11_Witness ==
    /\ SummaryReturned
    /\ AboveUpperThreshold
    /\ BelowLowerThreshold
    /\ outcome.bollinger_signal = "Near Upper"

\* A price equal to both thresholds: "Within Bands".
C11_WitnessEquality ==
    /\ SummaryReturned
    /\ IsNum(LastBands.upper)
    /\ Close.last.v * 100 = LastBands.upper.v * 98
    /\ Close.last.v * 100 = LastBands.lower.v * 102
    /\ outcome.bollinger_signal = "Within Bands"

\* calculate_volatility on the history the summary was built from.
LastVolatility == calculate_volatility(Close, 20)

\* The provider gave a non-empty history that is shorter than a window.
ShortHistory == SummaryCall /\ Close.bars > 0 /\ Close.bars < 50

NeutralOrUnknown == {"Neutral", "Unknown"}

(* C12: when the trailing value of an indicator (RSI, short and long moving   *)
(* average, Bollinger bands, volatility) is undefined because the history is  *)
(* shorter than its window, every signal get_technical_summary derives from   *)
(* it (rsi_signal, trend_signal, bollinger_signal, risk_level) is evaluated   *)
(* without raising and is "Neutral" or "Unknown".                             *)
C12_UndefinedGivesNeutral ==
    ShortHistory =>
        /\ outcome.kind = "summary"
        /\ ~IsNum(LastRsi) => outcome.rsi_signal \in NeutralOrUnknown
        /\ (~IsNum(LastSmaShort) \/ ~IsNum(LastSmaLong))
             => outcome.trend_signal \in NeutralOrUnknown
        /\ (~IsNum(LastBands.upper) \/ ~IsNum(LastBands.lower))
             => outcome.bollinger_signal \in NeutralOrUnknown
        /\ ~IsNum(LastVolatility.value)
             => outcome.risk_level \in NeutralOrUnknown

\* The provider raised, or answered with no rows, for the symbol.
NoHistory == provided[1].stock.fault \/ provided[1].stock.bars = 0

(* C13: get_technical_summary returns a structured error value (a record      *)
(* holding the error and no indicator field) and raises nothing whenever the  *)
(* symbol's price history is empty or the price provider fails;               *)
(* get_stock_data turns every provider exception into an empty history.       *)
C13_StructuredError ==
    SummaryCall =>
        /\ provided[1].stock.fault => get_stock_data(provided[1].stock) = EmptyFrame
        /\ NoHistory =>
            /\ outcome.kind = "error"
            /\ DOMAIN outcome = {"kind", "error"}
            /\ outcome.error = <<"No data found for", request.symbols[1]>>
        /\ outcome.kind = "error" => NoHistory

\* The provider raised, and the call returned the error record.
C13_Witness ==
    /\ SummaryCall
    /\ provided[1].stock.fault
    /\ outcome.kind = "error"

\* A five-bar history: bands and volatility are undefined, the signals are
\* "Within Bands" and "Low".
C12_Divergence ==
    /\ SummaryReturned
    /\ Close.bars = 5
    /\ ~IsNum(LastBands.upper)
    /\ ~IsNum(LastVolatility.value)
    /\ outcome.bollinger_signal = "Within Bands"
    /\ outcome.risk_level = "Low"

\* The percentage change of the last close against `prev`, as the summary
\* states it (two decimals); 0 when the history has `reach` bars or fewer.
ChangeAgainst(prev, reach) ==
    IF Close.bars > reach THEN Round2(PctChange(Close.last, prev)) ELSE F(0)

(* C14: the 1-day, 1-week and 1-month percentage changes of a summary are     *)
(* taken against the closes exactly 1, 5 and 20 bars before the last bar, and *)
(* each is 0 when the history is too short to reach that far back (1 bar or   *)
(* fewer, 5 or fewer, 20 or fewer).                                           *)
C14_PriceChanges ==
    SummaryReturned =>
        /\ outcome.price_change_1d = ChangeAgainst(Close.iloc_m2, 1)
        /\ outcome.price_change_1w = ChangeAgainst(Close.iloc_m6, 5)
        /\ outcome.price_change_1m = ChangeAgainst(Close.iloc_m21, 20)

\* What the code does: the weekly and monthly changes are taken against the
\* closes 4 and 19 bars before the last bar.
C14_Divergence ==
    /\ SummaryReturned
    /\ Close.bars = 21
    /\ outcome.price_change_1d = ChangeAgainst(Close.iloc_m2, 1)
    /\ outcome.price_change_1w = ChangeAgainst(Close.iloc_m5, 5)
    /\ outcome.price_change_1w # ChangeAgainst(Close.iloc_m6, 5)
    /\ outcome.price_change_1m = ChangeAgainst(Close.iloc_m20, 20)
    /\ outcome.price_change_1m # ChangeAgainst(Close.iloc_m21, 20)

\* The benchmark history get_technical_summary was given.
Benchmark == get_stock_data(provided[1].spy)

\* The number of dates on which both the subject and the benchmark have one of
\* their last 60 returns.
PairedReturns ==
    Min(Benchmark.overlap, Min(Min(Close.bars - 1, 60), Min(Benchmark.bars - 1, 60)))

\* The cases in which beta is the default.
BetaDefaults ==
    \/ Benchmark.bars = 0
    \/ PairedReturns < 10
    \/ Benchmark.variance_zero

\* The beta of the code for the histories read, whether or not the summary was
\* returned (lines 186-190).
BetaComputed ==
    IF Benchmark.bars # 0 THEN calculate_beta(Close, Benchmark, 60) ELSE Dec(1, 0)

C15_WitnessNoBenchmark ==
    SummaryReturned /\ provided[1].spy.fault /\ outcome.beta = Dec(1, 0)

C15_WitnessNinePairs ==
    SummaryReturned /\ Benchmark.bars # 0 /\ PairedReturns = 9 /\ outcome.beta = Dec(1, 0)

C15_WitnessZeroVariance ==
    /\ SummaryReturned
    /\ Benchmark.bars # 0
    /\ PairedReturns >= 10
    /\ Benchmark.variance_zero
    /\ outcome.beta = Dec(1, 0)

\* An indicator function was called on its own and the call is over.
IndicatorCall(f) == pc = "done" /\ request.op = f

(* C16: for every close series shorter than the window of an indicator,       *)
(* series of 0 and of 1 price included, each indicator function               *)
(* (calculate_rsi, calculate_moving_averages, calculate_bollinger_bands,      *)
(* calculate_volatility, calculate_beta) returns a defined undefined-marker   *)
(* or default and never raises.                                               *)
C16_IndicatorsNeverRaise ==
    /\ IndicatorCall("calculate_rsi") =>
        /\ outcome.kind = "returned"
        /\ Len(outcome.value) = Len(request.prices)
    /\ IndicatorCall("calculate_moving_averages") =>
        /\ outcome.kind = "returned"
        /\ request.history.bars < 20 => outcome.value.sma_short = NaN
        /\ request.history.bars < 50 => outcome.value.sma_long = NaN
    /\ IndicatorCall("calculate_bollinger_bands") =>
        /\ outcome.kind = "returned"
        /\ request.history.bars < 20 =>
            /\ outcome.value.middle = NaN
            /\ outcome.value.upper = NaN
            /\ outcome.value.lower = NaN
    /\ IndicatorCall("calculate_volatility") =>
        /\ outcome.kind = "returned"
        /\ request.history.bars < 21 => outcome.value = NaN
    /\ IndicatorCall("calculate_beta") =>
        /\ outcome.kind = "returned"
        /\ request.history.bars < 11 => outcome.value = Dec(1, 0)

\* What the code does: every function but calculate_volatility returns its
\* marker or default for every short series; calculate_volatility raises for
\* a series of 0 or 1 price and returns NaN for 2 to 20 prices.
C16_Divergence ==
    /\ IndicatorCall("calculate_volatility")
    /\ request.history.bars = 1
    /\ outcome.kind = "raised"

\* calculate_rsi's series, and the sums of gains and of losses over the
\* window that ends at price i.
RsiCall == IndicatorCall("calculate_rsi")

WindowFull(i) == i >= request.period

WindowGain(i) ==
    WindowSum(WherePositive(Diff(request.prices)), i - request.period + 1, i)

WindowLoss(i) ==
    WindowSum(NegatedWhereNegative(Diff(request.prices)), i - request.period + 1, i)

(* C17: every value calculate_rsi yields lies in [0, 100], and for every      *)
(* window whose average loss is zero (the prices never fall in it; a window   *)
(* of constant prices included) the value is exactly 100, never NaN.          *)
C17_RsiRange ==
    RsiCall =>
        \A i \in 1..Len(request.prices) :
            /\ IsNum(outcome.value[i]) =>
                (outcome.value[i].v >= 0 /\ outcome.value[i].v <= 100000)
            /\ (WindowFull(i) /\ WindowLoss(i) = 0) => outcome.value[i] = Dec(100, 0)

\* What the code does: a window without a fall gives 100 when it holds a rise
\* and NaN when it holds none.
C17_Divergence ==
    /\ RsiCall
    /\ request.prices = <<2, 2, 2, 3>>
    /\ request.period = 2
    /\ outcome.value = <<NaN, NaN, NaN, Dec(100, 0)>>

(* C18: calculate_rsi(prices, period) has a defined trailing value only when  *)
(* the series has at least period + 1 prices: for a series of exactly         *)
(* `period` prices, or fewer, the last RSI value is undefined.                *)
C18_RsiNeedsPeriodPlusOne ==
    (RsiCall /\ Len(request.prices) >= 1 /\ Len(request.prices) <= request.period) =>
        ~IsNum(outcome.value[Len(request.prices)])

\* What the code does: with exactly `period` prices the window holds the
\* zero that stands for the missing first difference, and the value is defined.
C18_Divergence ==
    /\ RsiCall
    /\ request.prices = <<1, 2, 1>>
    /\ request.period = 3
    /\ outcome.value = <<NaN, NaN, Dec(50, 0)>>

\* The numeric fields of a summary.
NumericFields(summary) ==
    {summary.current_price, summary.price_change_1d, summary.price_change_1w,
     summary.price_change_1m, summary.rsi, summary.sma_20, summary.sma_50,
     summary.bollinger_upper, summary.bollinger_lower, summary.volatility,
     summary.beta}

(* C19: for every non-empty price history, of any length, and any benchmark   *)
(* history, every numeric field of the record get_technical_summary returns   *)
(* (current_price, the price changes, rsi, sma_20, sma_50, bollinger_upper,   *)
(* bollinger_lower, volatility, beta) and every average of the                *)
(* analyze_risk_exposure report is a finite number or is absent, never NaN or *)
(* infinite.                                                                  *)
C19_NoNaNAtBoundary ==
    /\ SummaryReturned => \A x \in NumericFields(outcome) : IsNum(x)
    /\ (RiskCall /\ outcome.kind = "report") =>
        /\ IsNum(outcome.average_volatility)
        /\ IsNum(outcome.average_beta)
        /\ \A k \in 1..Len(outcome.stocks) :
              \A x \in NumericFields(outcome.stocks[k]) : IsNum(x)

\* What the code does: the summary of a 5-bar history carries NaN for rsi,
\* both moving averages, both bands and the volatility.
C19_Divergence ==
    /\ SummaryReturned
    /\ Close.bars = 5
    /\ {outcome.rsi, outcome.sma_20, outcome.sma_50, outcome.bollinger_upper,
        outcome.bollinger_lower, outcome.volatility} = {NaN}
    /\ IsNum(outcome.beta)

\* A report over a full history and a 5-bar history: the average volatility
\* is NaN.
C19_DivergenceAverage ==
    /\ RiskCall
    /\ outcome.kind = "report"
    /\ outcome.stocks_analyzed = 2
    /\ IsNum(outcome.stocks[1].volatility)
    /\ outcome.average_volatility = NaN
    /\ IsNum(outcome.average_beta)

\* How answer_question classified the question.
MarketQuery == is_market_data_query(request.question)

StockName == extract_stock_name(request.question)

\* The positions in the run at which a collaborator was called.
CallsOf(callee) == {i \in 1..Len(provided) : provided[i].callee = callee}

PriceSucceeded(i) ==
    provided[i] = [callee |-> "get_realtime_price", status |-> "success"]

(* C20: in every run of answer_question for a question classified as a        *)
(* market-data query the language model is invoked only after the             *)
(* market-data agent was called and returned status "success"; when no stock  *)
(* or index name can be extracted the fixed "Please specify which stock or    *)
(* index..." message is returned, and when the price lookup does not succeed  *)
(* the fixed "Market data is currently unavailable." message is returned, in  *)
(* both cases without a call of the retriever or of the language model.  For  *)
(* a question that is not a market-data query the market-data agent is never  *)
(* called.                                                                    *)
C20_MarketDataFirst ==
    /\ MarketQuery =>
        /\ \A j \in CallsOf("llm.invoke") \cup CallsOf("retrieve_top_chunks") :
              \E i \in 1..(j - 1) : PriceSucceeded(i)
        /\ StockName = <<>> =>
            /\ provided = <<>>
            /\ pc \in {"ready", "done"}
            /\ pc = "done" => outcome = [kind |-> "answer", text |->
                    "Please specify which stock or index you'd like information about."]
        /\ (\E i \in CallsOf("get_realtime_price") : ~PriceSucceeded(i)) =>
            /\ Len(provided) = 1
            /\ pc = "done"
            /\ outcome = [kind |-> "answer",
                          text |-> "Market data is currently unavailable."]
    /\ ~MarketQuery => CallsOf("get_realtime_price") = {}

\* A market-data query with a stock name: the agent succeeded, then the
\* retriever and the language model were called, in that order.
C20_Witness ==
    /\ pc = "done"
    /\ MarketQuery
    /\ StockName = <<<<"i","n","f","o","s","y","s">>>>
    /\ Len(provided) = 3
    /\ PriceSucceeded(1)
    /\ provided[2].callee = "retrieve_top_chunks"
    /\ provided[3] = [callee |-> "llm.invoke", status |-> "returned"]
    /\ outcome.kind = "answer"

\* The price lookup failed: the fixed message, and no other call.
C20_WitnessUnavailable ==
    /\ pc = "done"
    /\ StockName = <<<<"A","A","P","L">>>>
    /\ provided = <<[callee |-> "get_realtime_price", status |-> "data_unavailable"]>>
    /\ outcome.text = "Market data is currently unavailable."

\* A market-data query without a stock name: the fixed message, and no call.
C20_WitnessNoStock ==
    /\ pc = "done"
    /\ MarketQuery
    /\ StockName = <<>>
    /\ provided = <<>>
    /\ outcome.kind = "answer"

\* Not a market-data query, although a stock is named: the language model
\* answers from the retriever's context alone.
C20_WitnessNotMarket ==
    /\ pc = "done"
    /\ ~MarketQuery
    /\ StockName # <<>>
    /\ Len(provided) = 2
    /\ provided[2] = [callee |-> "llm.invoke", status |-> "returned"]

---------------------------------------------------------------------------
(* get_earnings_news (src/data_ingestion/scraper_agent.py).  The RSS feed and *)
(* the article pages are external: a feed is [fault, entries], fault meaning  *)
(* that feedparser.parse raised; an entry holds its title (<<>> when the      *)
(* entry has none, so that entry.title raises AttributeError), what           *)
(* requests.get on its link does ("ok" or the exception raised) and the text  *)
(* of the page.  A dict is a record; a call gives [kind |-> "returned",       *)
(* value |-> dict] or [kind |-> "raised", exception |-> name].                *)

\* The longest feed.
MaxEntries == 6

EarningsKeywords ==
    <<<<"b","e","a","t">>,
      <<"b","e","a","t","s">>,
      <<"m","i","s","s">>,
      <<"m","i","s","s","e","d">>,
      <<"s","u","r","p","r","i","s","e">>,
      <<"f","a","l","l","s"," ","s","h","o","r","t">>>>

\* Page texts: "TSMC Beats" and "no news".
PageTexts ==
    {<<"T","S","M","C"," ","B","e","a","t","s">>, <<"n","o"," ","n","e","w","s">>}

\* The exception of a failed requests.get: a timeout for the entries at odd
\* positions, a connection error for the others.
FetchFailure(i) == IF i % 2 = 1 THEN "Timeout" ELSE "ConnectionError"

\* The i-th entry of a feed: a page that is fetched, a fetch that times out or
\* cannot connect, or an entry without a title.
EntriesAt(i) ==
    {[title |-> <<<<"Headline", i>>>>, fetch |-> "ok", text |-> t] : t \in PageTexts}
    \cup {[title |-> <<<<"Headline", i>>>>, fetch |-> FetchFailure(i), text |-> <<>>]}
    \cup {[title |-> <<>>, fetch |-> "ok", text |-> <<>>]}

\* The entry lists of n entries.
RECURSIVE EntryLists(_)
EntryLists(n) ==
    IF n = 0 THEN {<<>>}
    ELSE {Append(es, e) : es \in EntryLists(n - 1), e \in EntriesAt(n)}

Feeds ==
    {[fault |-> TRUE, entries |-> <<>>]}
    \cup {[fault |-> FALSE, entries |-> es] :
            es \in UNION {EntryLists(n) : n \in 0..MaxEntries}}

Tickers == {<<"T","S","M","C">>, <<"S","a","m","s","u","n","g">>}

\* A faulty slice that keeps every entry; C22 does not hold of it.
FirstFive_All(entries) == entries

\* feed.entries[:5]
FirstFive(entries) == SubSeq(entries, 1, Min(5, Len(entries)))

\* Line 30: any(keyword in text ...), text being soup.get_text().lower()
HasEarningsKeyword(page) ==
    LET text == lower(page)
    IN  \E k \in 1..Len(EarningsKeywords) : Contains(EarningsKeywords[k], text)

\* Lines 23-31: the title goes to relevant_headlines when the page was
\* fetched and holds a keyword; a failed fetch skips the entry.
IsRelevantEntry(entry) == entry.fetch = "ok" /\ HasEarningsKeyword(entry.text)

\* A faulty handler that lets the exception go; C21 does not hold of it.
OnException_Reraise(ticker, e) == [kind |-> "raised", exception |-> e]

\* Lines 39-40: except Exception as e: return {"ticker": ticker, "error": str(e)}
OnException(ticker, e) ==
    [kind |-> "returned", value |-> [ticker |-> ticker, error |-> e]]

get_earnings_news(ticker, feed) ==
    IF feed.fault THEN OnException(ticker, "Parse error")
    ELSE IF Len(feed.entries) = 0
    THEN [kind |-> "returned",
          value |-> [ticker |-> ticker, error |-> "No news found in RSS feed."]]
    ELSE
    LET entries == FirstFive(feed.entries)
    IN  IF \E i \in 1..Len(entries) : entries[i].title = <<>>
        THEN OnException(ticker, "AttributeError")
        ELSE
        LET all_headlines == [i \in 1..Len(entries) |-> entries[i].title[1]]
            relevant == SelectSeq(entries, IsRelevantEntry)
            relevant_headlines == [i \in 1..Len(relevant) |-> relevant[i].title[1]]
        IN  [kind |-> "returned",
             value |-> [ticker |-> ticker,
                        relevant_earnings_news |->
                            IF Len(relevant_headlines) = 0
                            THEN <<"No strong signals found.">>
                            ELSE relevant_headlines,
                        all_news |-> all_headlines]]

InitScraper ==
    /\ pc = "ready"
    /\ request \in {[op |-> "get_earnings_news", ticker |-> t] : t \in Tickers}
    /\ selected = <<>>
    /\ provided = <<>>
    /\ outcome = [kind |-> "none"]

GetEarningsNews ==
    /\ pc = "ready"
    /\ request.op = "get_earnings_news"
    /\ \E feed \in Feeds :
        /\ provided' = <<feed>>
        /\ outcome' = get_earnings_news(request.ticker, feed)
    /\ pc' = "done"
    /\ UNCHANGED <<request, selected>>

SpecScraper == InitScraper /\ [][GetEarningsNews]_vars

\* A call of get_earnings_news is over; the feed it was given.
NewsCall == pc = "done" /\ request.op = "get_earnings_news"

Feed == provided[1]

(* C21: get_earnings_news never raises, whatever the ticker and whatever the  *)
(* feed and the article pages do (the feed parse raises, the feed is empty,   *)
(* an article fetch times out or cannot connect): it returns a dict whose     *)
(* 'ticker' is the argument and that holds exactly one of 'error' and         *)
(* 'all_news'; when the feed parse raises or the feed has no entries the      *)
(* dict holds 'error'.                                                        *)
C21_NewsNeverRaises ==
    NewsCall =>
        /\ outcome.kind = "returned"
        /\ outcome.value.ticker = request.ticker
        /\ ("error" \in DOMAIN outcome.value) # ("all_news" \in DOMAIN outcome.value)
        /\ (Feed.fault \/ Len(Feed.entries) = 0) => "error" \in DOMAIN outcome.value

\* One entry whose article fetch times out: the headlines are returned.
C21_Witness ==
    /\ NewsCall
    /\ Len(Feed.entries) = 1
    /\ Feed.entries[1].fetch = "Timeout"
    /\ outcome.kind = "returned"
    /\ outcome.value.all_news = <<<<"Headline", 1>>>>

\* The feed parse raised: the error dict is returned.
C21_WitnessParseError ==
    /\ NewsCall
    /\ Feed.fault
    /\ outcome.kind = "returned"
    /\ outcome.value = [ticker |-> request.ticker, error |-> "Parse error"]

\* The position in the feed of the headline <<"Headline", i>>.
PositionOf(headline) == headline[2]

(* C22: for a feed of n >= 1 entries the 'all_news' list get_earnings_news    *)
(* returns holds the titles of the first min(5, n) entries in feed order      *)
(* (never more than 5), the entries whose article fetch failed included;      *)
(* 'relevant_earnings_news' is never empty, and is either a sub-list of       *)
(* all_news holding only entries whose fetched text contained an earnings     *)
(* keyword, or the single placeholder "No strong signals found.".             *)
C22_Headlines ==
    (NewsCall /\ ~Feed.fault /\ Len(Feed.entries) >= 1) =>
        LET n == Len(Feed.entries)
            first == Min(5, n)
        IN  /\ (\A i \in 1..first : Feed.entries[i].title # <<>>)
                  => "all_news" \in DOMAIN outcome.value
            /\ "all_news" \in DOMAIN outcome.value =>
                LET all_news == outcome.value.all_news
                    relevant == outcome.value.relevant_earnings_news
                IN  /\ Len(all_news) = first
                    /\ Len(all_news) <= 5
                    /\ \A i \in 1..first : all_news[i] = Feed.entries[i].title[1]
                    /\ Len(relevant) >= 1
                    /\ \/ relevant = <<"No strong signals found.">>
                       \/ /\ \A k \in 1..Len(relevant) :
                                /\ PositionOf(relevant[k]) \in 1..first
                                /\ all_news[PositionOf(relevant[k])] = relevant[k]
                                /\ Feed.entries[PositionOf(relevant[k])].fetch = "ok"
                                /\ HasEarningsKeyword(
                                      Feed.entries[PositionOf(relevant[k])].text)
                          /\ \A k \in 1..(Len(relevant) - 1) :
                                PositionOf(relevant[k]) < PositionOf(relevant[k + 1])

\* A feed of six entries, the second fetch failing: five headlines, the
\* failed one among them, and the relevant ones a proper sub-list.
C22_Witness ==
    /\ NewsCall
    /\ Len(Feed.entries) = 6
    /\ Feed.entries[2].fetch = "ConnectionError"
    /\ outcome.kind = "returned"
    /\ "all_news" \in DOMAIN outcome.value
    /\ Len(outcome.value.all_news) = 5
    /\ outcome.value.all_news[2] = <<"Headline", 2>>
    /\ outcome.value.relevant_earnings_news = <<<<"Headline", 1>>, <<"Headline", 4>>>>

\* No page holds a keyword: the placeholder.
C22_WitnessPlaceholder ==
    /\ NewsCall
    /\ Len(Feed.entries) = 2
    /\ outcome.kind = "returned"
    /\ "all_news" \in DOMAIN outcome.value
    /\ outcome.value.relevant_earnings_news = <<"No strong signals found.">>

---------------------------------------------------------------------------
(* POST /yfinance/historical (src/data_ingestion/api_agent.py).  The price    *)
(* provider answers with rows, with no rows, or raises; an HTTPException that *)
(* leaves the handler is the response [status, detail].                       *)

\* What ticker.history may do: raise, or return `rows` rows.
HistoryAnswers ==
    {[raised |-> <<e>>, rows |-> 0] :
        e \in {"ConnectionError", "JSONDecodeError", "ValueError"}}
    \cup {[raised |-> <<>>, rows |-> n] : n \in 0..5}

StockRequests ==
    {[op |-> "get_historical_data", symbol |-> s, start_date |-> a, end_date |-> b] :
        s \in {<<"M","S","F","T">>, <<"I","N","V","A","L","I","D">>, <<>>},
        a \in {<<>>, <<"2024-01-01">>},
        b \in {<<>>, <<"2024-06-30">>}}

\* str(HTTPException(status_code, detail)) is "<status_code>: <detail>"
StrOfHTTPException(status_code, detail) == <<status_code, ": ", detail>>

\* Lines 24-32.  The HTTPException of line 28 is raised inside the try block
\* and HTTPException is an Exception, so the handler of line 31 catches it as
\* it catches an exception of the provider.
get_historical_data(req, answer) ==
    LET body ==
            IF answer.raised # <<>>
            THEN [kind |-> "raised", e |-> <<answer.raised[1]>>]
            ELSE IF answer.rows = 0
            THEN [kind |-> "raised", e |-> StrOfHTTPException(404, "No data found")]
            ELSE [kind |-> "returned", e |-> <<>>]
    IN  IF body.kind = "raised"
        THEN [status |-> 500, detail |-> body.e, records |-> 0]
        ELSE [status |-> 200, detail |-> <<>>, records |-> answer.rows]

InitApi ==
    /\ pc = "ready"
    /\ request \in StockRequests
    /\ selected = <<>>
    /\ provided = <<>>
    /\ outcome = [kind |-> "none"]

GetHistoricalData ==
    /\ pc = "ready"
    /\ request.op = "get_historical_data"
    /\ \E answer \in HistoryAnswers :
        /\ provided' = <<answer>>
        /\ outcome' = [kind |-> "response",
                       response |-> get_historical_data(request, answer)]
    /\ pc' = "done"
    /\ UNCHANGED <<request, selected>>

SpecApi == InitApi /\ [][GetHistoricalData]_vars

\* The endpoint has answered; what the provider did.
HistoricalCall == pc = "done" /\ request.op = "get_historical_data"

EmptyHistory == provided[1].raised = <<>> /\ provided[1].rows = 0

(* C23: POST /yfinance/historical answers with status 404 and detail          *)
(* "No data found" when the price provider returns an empty history for the   *)
(* symbol, and with status 500 only when the provider call itself raises; it  *)
(* never answers 200 for an empty history.                                    *)
C23_EmptyHistoryIs404 ==
    HistoricalCall =>
        /\ EmptyHistory =>
            /\ outcome.response.status = 404
            /\ outcome.response.detail = "No data found"
        /\ outcome.response.status = 500 => provided[1].raised # <<>>
        /\ EmptyHistory => outcome.response.status # 200

\* What the code does: an empty history is answered with status 500 and the
\* text of the 404 exception as detail.
C23_Divergence ==
    /\ HistoricalCall
    /\ EmptyHistory
    /\ outcome.response.status = 500
    /\ outcome.response.detail = <<404, ": ", "No data found">>

---------------------------------------------------------------------------
(* The shared FallbackHandler (src/orchestrator/fallback_handler.py) and the  *)
(* /ask_llm endpoint that uses it (src/orchestrator/main.py).                 *)
(* selected is the handler object, provided the clock read by datetime.now()  *)
(* together with the log of the responses generated so far, request the last  *)
(* call and outcome its result.  Times are whole seconds.                     *)

MaxFallbacks == 5
MaxClock == 65

DEFAULT_RESPONSES ==
    [no_context |-> "I couldn't find specific information about that topic in my knowledge base. Please try rephrasing your question or ask about a different topic.",
     api_error |-> "I'm having trouble connecting to the data source right now. Please try again in a few moments.",
     llm_error |-> "I encountered an issue while generating a response. Please try again or simplify your question.",
     voice_error |-> "I had trouble processing the audio. Please make sure the recording is clear and try again.",
     timeout |-> "The request took too long to process. Please try a simpler query or try again later.",
     invalid_input |-> "I couldn't understand your request. Please provide a clear financial question.",
     no_data |-> "No market data is available for that symbol or time period. Please check the ticker symbol and try again.",
     general |-> "Something went wrong while processing your request. Please try again later or contact support."]

SUGGESTIONS ==
    <<"Try asking about specific stock tickers like AAPL, TSMC, or MSFT",
      "Ask about earnings reports, price trends, or market analysis",
      "You can ask questions like 'What is the RSI for Apple?' or 'Did TSMC beat earnings?'",
      "For voice queries, speak clearly and avoid background noise">>

\* dict.get(key, default) on a dict whose keys are strings
DictGet(d, key, default) == IF key \in DOMAIN d THEN d[key] ELSE default

\* __init__, lines 59-61
NewHandler == [error_count |-> 0, last_error_time |-> <<>>]

\* Mutant of _log_error: the time of the error is not stored.
log_error_NoTime(self, now) ==
    [self EXCEPT !.error_count = @ + 1]

\* _log_error, lines 113-114 (the log line written after them changes nothing)
log_error(self, now) ==
    [error_count |-> self.error_count + 1, last_error_time |-> <<now>>]

\* Mutant of _get_relevant_suggestions: the first three suggestions for all.
get_relevant_suggestions_Three(error_type) ==
    IF error_type = "voice_error"
    THEN <<SUGGESTIONS[4]>>
    ELSE SubSeq(SUGGESTIONS, 1, 3)

\* _get_relevant_suggestions, lines 126-131
get_relevant_suggestions(error_type) ==
    IF error_type = "voice_error"
    THEN <<SUGGESTIONS[4]>>
    ELSE IF error_type \in {"no_context", "no_data"}
    THEN SubSeq(SUGGESTIONS, 1, 3)
    ELSE <<SUGGESTIONS[1], SUGGESTIONS[2]>>

\* get_fallback_response, lines 83-104: the handler after the call and the
\* response; a key the code leaves out is <<>>.  original_query is Optional.
get_fallback_response(self, now, error_type, original_query, include_suggestions) ==
    [handler |-> log_error(self, now),
     value |->
        [success |-> FALSE,
         error_type |-> error_type,
         message |-> DictGet(DEFAULT_RESPONSES, error_type, DEFAULT_RESPONSES["general"]),
         timestamp |-> now,
         original_query |->
            IF original_query # <<>> /\ original_query[1] # ""
            THEN original_query ELSE <<>>,
         suggestions |->
            IF include_suggestions
            THEN <<get_relevant_suggestions(error_type)>> ELSE <<>>]]

error_type_map ==
    [api_agent |-> "api_error",
     scraper_agent |-> "api_error",
     language_agent |-> "llm_error",
     retriever_agent |-> "no_context",
     voice_agent |-> "voice_error",
     analytics_agent |-> "no_data"]

\* handle_agent_failure, lines 150-166 (the exception only reaches the log)
handle_agent_failure(self, now, agent_name, query, exception) ==
    get_fallback_response(self, now, DictGet(error_type_map, agent_name, "general"),
                          <<query>>, TRUE)

\* get_fallback, lines 216-221, on the module's handler
get_fallback(self, now, error_type, query) ==
    LET r == get_fallback_response(self, now, error_type, query, FALSE)
    IN  [handler |-> r.handler, value |-> r.value.message]

\* handle_exception, line 236, on the module's handler
handle_exception(self, now, agent_name, query, exception) ==
    handle_agent_failure(self, now, agent_name, query, <<exception>>)

\* is_rate_limited, lines 179-189
is_rate_limited(self, now, max_errors, window_seconds) ==
    IF self.last_error_time = <<>>
    THEN [handler |-> self, value |-> FALSE]
    ELSE LET time_since_last == now - self.last_error_time[1]
         IN  IF time_since_last > window_seconds
             THEN [handler |-> [self EXCEPT !.error_count = 0], value |-> FALSE]
             ELSE [handler |-> self, value |-> self.error_count >= max_errors]

\* get_health_status, lines 193-198.  The entries of the dict are evaluated in
\* the order written: error_count and is_healthy are read before the call of
\* is_rate_limited with its defaults (10 errors, 60 seconds).
get_health_status(self, now) ==
    LET r == is_rate_limited(self, now, 10, 60)
    IN  [handler |-> r.handler,
         value |-> [error_count |-> self.error_count,
                    last_error_time |-> self.last_error_time,
                    is_healthy |-> self.error_count < 5,
                    rate_limited |-> r.value]]

\* What answer_question may do for /ask_llm: return an answer or raise.
AnswerOutcomes ==
    {[raised |-> <<e>>, answer |-> <<>>] :
        e \in {"FileNotFoundError", "ConnectionError"}}
    \cup {[raised |-> <<>>, answer |-> <<"TSMC beat estimates.">>]}

\* ask_llm, lines 52-64 of main.py
ask_llm(self, now, question, answered) ==
    IF answered.raised = <<>>
    THEN [handler |-> self,
          value |-> [question |-> <<question>>, answer |-> answered.answer,
                     error |-> <<>>, suggestions |-> <<>>]]
    ELSE LET fallback == handle_exception(self, now, "language_agent", question,
                                          answered.raised[1])
         IN  [handler |-> fallback.handler,
              value |-> [question |-> <<>>, answer |-> <<>>,
                         error |-> <<fallback.value.message>>,
                         suggestions |->
                            IF fallback.value.suggestions # <<>>
                            THEN fallback.value.suggestions ELSE << <<>> >>]]

ErrorTypes == {"voice_error", "no_data", "rate_limit"}
AgentNames == {"language_agent", "voice_agent", "pricing_agent"}
Queries == {"", "Get AAPL data"}
OptionalQueries == {<<>>} \cup {<<q>> : q \in Queries}
MaxErrorsArgs == {1, 2, 10}
WindowArgs == {30, 60}
TickSeconds == {30, 31}

NoCall ==
    [op |-> "__init__", error_type |-> "", agent_name |-> "", query |-> <<>>,
     include_suggestions |-> FALSE, exception |-> <<>>, max_errors |-> 0,
     window_seconds |-> 0, at |-> 0]

Handler == selected
Now == provided.now

\* The log kept beside the handler: the time of every response generated since
\* construction, and how many of them had been generated at the last reset.
Generated(now) ==
    [provided EXCEPT !.responses = Append(@, now)]

InitFallback ==
    /\ pc = "ready"
    /\ request = NoCall
    /\ selected = NewHandler
    /\ provided = [now |-> 0, responses |-> <<>>, reset_at |-> 0]
    /\ outcome = [kind |-> "none"]

CanRespond == Len(provided.responses) < MaxFallbacks

Tick ==
    /\ \E d \in TickSeconds :
        /\ Now + d <= MaxClock
        /\ provided' = [provided EXCEPT !.now = @ + d]
    /\ UNCHANGED <<pc, request, selected, outcome>>

GetFallbackResponse ==
    /\ CanRespond
    /\ \E error_type \in ErrorTypes, original_query \in OptionalQueries,
          include_suggestions \in BOOLEAN :
        LET r == get_fallback_response(Handler, Now, error_type, original_query,
                                       include_suggestions)
        IN  /\ request' = [NoCall EXCEPT !.op = "get_fallback_response", !.at = Now,
                                         !.error_type = error_type,
                                         !.query = original_query,
                                         !.include_suggestions = include_suggestions]
            /\ selected' = r.handler
            /\ outcome' = [kind |-> "response", value |-> r.value]
    /\ provided' = Generated(Now)
    /\ UNCHANGED pc

HandleAgentFailure ==
    /\ CanRespond
    /\ \E agent_name \in AgentNames, query \in Queries :
        LET r == handle_agent_failure(Handler, Now, agent_name, query, <<>>)
        IN  /\ request' = [NoCall EXCEPT !.op = "handle_agent_failure", !.at = Now,
                                         !.agent_name = agent_name,
                                         !.query = <<query>>,
                                         !.include_suggestions = TRUE]
            /\ selected' = r.handler
            /\ outcome' = [kind |-> "response", value |-> r.value]
    /\ provided' = Generated(Now)
    /\ UNCHANGED pc

GetFallback ==
    /\ CanRespond
    /\ \E error_type \in ErrorTypes, query \in OptionalQueries :
        LET r == get_fallback(Handler, Now, error_type, query)
        IN  /\ request' = [NoCall EXCEPT !.op = "get_fallback", !.at = Now,
                                         !.error_type = error_type,
                                         !.query = query]
            /\ selected' = r.handler
            /\ outcome' = [kind |-> "message", value |-> r.value]
    /\ provided' = Generated(Now)
    /\ UNCHANGED pc

HandleException ==
    /\ CanRespond
    /\ \E agent_name \in AgentNames, query \in Queries :
        LET r == handle_exception(Handler, Now, agent_name, query, "TimeoutError")
        IN  /\ request' = [NoCall EXCEPT !.op = "handle_exception", !.at = Now,
                                         !.agent_name = agent_name,
                                         !.query = <<query>>,
                                         !.exception = <<"TimeoutError">>,
                                         !.include_suggestions = TRUE]
            /\ selected' = r.handler
            /\ outcome' = [kind |-> "response", value |-> r.value]
    /\ provided' = Generated(Now)
    /\ UNCHANGED pc

IsRateLimited ==
    /\ \E max_errors \in MaxErrorsArgs, window_seconds \in WindowArgs :
        LET r == is_rate_limited(Handler, Now, max_errors, window_seconds)
        IN  /\ request' = [NoCall EXCEPT !.op = "is_rate_limited", !.at = Now,
                                         !.max_errors = max_errors,
                                         !.window_seconds = window_seconds]
            /\ selected' = r.handler
            /\ outcome' = [kind |-> "bool", value |-> r.value]
            /\ provided' =
                IF Handler.last_error_time # <<>>
                   /\ Now - Handler.last_error_time[1] > window_seconds
                THEN [provided EXCEPT !.reset_at = Len(provided.responses)]
                ELSE provided
    /\ UNCHANGED pc

GetHealthStatus ==
    /\ LET r == get_health_status(Handler, Now)
       IN  /\ request' = [NoCall EXCEPT !.op = "get_health_status", !.at = Now]
           /\ selected' = r.handler
           /\ outcome' = [kind |-> "status", value |-> r.value]
           /\ provided' =
                IF Handler.last_error_time # <<>>
                   /\ Now - Handler.last_error_time[1] > 60
                THEN [provided EXCEPT !.reset_at = Len(provided.responses)]
                ELSE provided
    /\ UNCHANGED pc

AskLlm ==
    /\ CanRespond
    /\ \E question \in Queries, answered \in AnswerOutcomes :
        LET r == ask_llm(Handler, Now, question, answered)
        IN  /\ request' = [NoCall EXCEPT !.op = "ask_llm", !.at = Now,
                                         !.query = <<question>>,
                                         !.exception = answered.raised]
            /\ selected' = r.handler
            /\ outcome' = [kind |-> "json", value |-> r.value]
            /\ provided' = IF answered.raised = <<>> THEN provided
                           ELSE Generated(Now)
    /\ UNCHANGED pc

NextFallback ==
    \/ Tick
    \/ GetFallbackResponse
    \/ HandleAgentFailure
    \/ GetFallback
    \/ HandleException
    \/ IsRateLimited
    \/ GetHealthStatus
    \/ AskLlm

SpecFallback == InitFallback /\ [][NextFallback]_vars


\* The last call on the handler was is_rate_limited, made at request.at.
RateCall == request.op = "is_rate_limited"

\* How many errors were recorded within the `window` seconds before time `at`
ErrorsWithin(at, window) ==
    Cardinality({i \in 1..Len(provided.responses) :
                    at - provided.responses[i] <= window})

(* C24: over any sequence of fallback errors and rate-limit checks on one     *)
(* handler, is_rate_limited(max_errors, window_seconds) returns True only if  *)
(* at least max_errors errors were recorded within the window_seconds before  *)
(* the call; it returns False when no error was ever recorded; and when more  *)
(* than window_seconds have passed since the last error it returns False and  *)
(* resets error_count to 0.                                                   *)
C24_RateLimitWindow ==
    RateCall =>
        /\ outcome.value =>
            ErrorsWithin(request.at, request.window_seconds) >= request.max_errors
        /\ provided.responses = <<>> => ~outcome.value
        /\ (/\ Handler.last_error_time # <<>>
            /\ request.at - Handler.last_error_time[1] > request.window_seconds)
            => (~outcome.value /\ Handler.error_count = 0)

\* What the code does: the count is of the errors since the last reset, so a
\* check answers True with fewer than max_errors errors inside the window.
C24_Divergence ==
    /\ RateCall
    /\ outcome.value
    /\ request.max_errors = 2
    /\ request.window_seconds = 60
    /\ ErrorsWithin(request.at, 60) = 1
    /\ Handler.error_count = 2

\* The parts of C24 the code keeps: never limited without a recorded error,
\* and a check made after the window has passed answers False and resets.
C24_ResetAfterWindow ==
    RateCall =>
        /\ provided.responses = <<>> => ~outcome.value
        /\ (/\ Handler.last_error_time # <<>>
            /\ request.at - Handler.last_error_time[1] > request.window_seconds)
            => (~outcome.value /\ Handler.error_count = 0)


\* The last call was POST /ask_llm; whether answer_question raised in it.
AskLlmCall == request.op = "ask_llm"

(* C25: POST /ask_llm never propagates an exception raised by                 *)
(* answer_question: it returns a record whose 'error' is the default          *)
(* llm_error message and whose 'suggestions' are the first two general        *)
(* suggestions, and records exactly one error in the shared fallback handler; *)
(* when answer_question succeeds the response has 'question' and 'answer' and *)
(* the handler's error_count and last_error_time are unchanged.               *)
C25_AskLlmFallback ==
    [][AskLlm =>
        IF request'.exception # <<>>
        THEN /\ outcome'.kind = "json"
             /\ outcome'.value.error = <<DEFAULT_RESPONSES["llm_error"]>>
             /\ outcome'.value.suggestions = <<SubSeq(SUGGESTIONS, 1, 2)>>
             /\ outcome'.value.question = <<>>
             /\ outcome'.value.answer = <<>>
             /\ selected'.error_count = selected.error_count + 1
             /\ selected'.last_error_time = <<Now>>
             /\ Len(provided'.responses) = Len(provided.responses) + 1
        ELSE /\ outcome'.kind = "json"
             /\ outcome'.value.question = request'.query
             /\ outcome'.value.answer # <<>>
             /\ outcome'.value.error = <<>>
             /\ selected'.error_count = selected.error_count
             /\ selected'.last_error_time = selected.last_error_time
             /\ provided'.responses = provided.responses]_vars

\* answer_question raised on a handler that had recorded errors before, and
\* the endpoint answered with the fallback.
C25_Witness ==
    /\ AskLlmCall
    /\ request.exception = <<"ConnectionError">>
    /\ outcome.value.error # <<>>
    /\ Handler.error_count = 3

\* answer_question succeeded on a handler that had recorded errors before.
C25_WitnessSuccess ==
    /\ AskLlmCall
    /\ request.exception = <<>>
    /\ outcome.value.answer # <<>>
    /\ Handler.error_count = 2
    /\ Handler.last_error_time = <<30>>
    /\ request.at = 61


\* The last call generated a fallback response.
ResponseCall ==
    \/ request.op \in {"get_fallback_response", "handle_agent_failure",
                       "get_fallback", "handle_exception"}
    \/ request.op = "ask_llm" /\ request.exception # <<>>

\* Responses generated since construction or since the last reset
ResponsesSinceReset == Len(provided.responses) - provided.reset_at

(* C26: after any sequence of operations on the handler, error_count is a     *)
(* non-negative integer equal to the number of fallback responses generated   *)
(* (by get_fallback_response, handle_agent_failure, get_fallback or           *)
(* handle_exception) since construction or since the last reset made by       *)
(* is_rate_limited; each response adds exactly 1 to it and sets               *)
(* last_error_time; and error_count > 0 implies that last_error_time is set.  *)
C26_ErrorCount ==
    /\ Handler.error_count \in Nat
    /\ Handler.error_count = ResponsesSinceReset
    /\ Handler.error_count > 0 => Handler.last_error_time # <<>>
    /\ ResponseCall =>
        /\ Handler.error_count >= 1
        /\ Handler.last_error_time = <<request.at>>
        /\ provided.responses[Len(provided.responses)] = request.at

\* Three responses since a reset that followed two earlier ones.
C26_Witness ==
    /\ request.op = "handle_exception"
    /\ provided.reset_at = 2
    /\ Handler.error_count = 3
    /\ Handler.last_error_time = <<61>>

\* The last call was get_health_status.
HealthCall == request.op = "get_health_status"

(* C27: get_health_status is a read-only query: in every reachable state of   *)
(* the handler, one where more than 60 seconds have passed since the last     *)
(* error included, it leaves error_count and last_error_time unchanged, and   *)
(* the error_count, is_healthy (error_count < 5) and rate_limited it reports  *)
(* describe the handler as it is when the call returns.                       *)
C27_HealthReadOnly ==
    [][GetHealthStatus =>
        /\ selected'.error_count = selected.error_count
        /\ selected'.last_error_time = selected.last_error_time
        /\ outcome'.value.error_count = selected'.error_count
        /\ outcome'.value.is_healthy = (selected'.error_count < 5)
        /\ outcome'.value.rate_limited =
            is_rate_limited(selected', Now, 10, 60).value]_vars

\* What the code does: five errors, then a status query more than 60 seconds
\* after the last of them reports error_count 5 and is_healthy False while the
\* handler it leaves behind has error_count 0.
C27_Divergence ==
    /\ HealthCall
    /\ outcome.value.error_count = 5
    /\ ~outcome.value.is_healthy
    /\ ~outcome.value.rate_limited
    /\ Handler.error_count = 0
    /\ Handler.last_error_time # <<>>
    /\ request.at - Handler.last_error_time[1] > 60

\* Within 60 seconds of the last error the query changes nothing and reports
\* the handler as it is.
C27_WithinWindow ==
    (/\ HealthCall
     /\ Handler.last_error_time # <<>>
     /\ request.at - Handler.last_error_time[1] <= 60)
        => /\ outcome.value.error_count = Handler.error_count
           /\ outcome.value.is_healthy = (Handler.error_count < 5)
           /\ outcome.value.last_error_time = Handler.last_error_time

---------------------------------------------------------------------------
(* POST /ask_audio (src/orchestrator/main.py, lines 68-96).  provided is the  *)
(* working directory (the set of files in it), selected the local variables   *)
(* of the request and the step that raised, pc the position in the handler.   *)

Uploads == {"speech", "noise", "empty"}
Uuids == {"3f2a", "9c1e"}
Transcripts == {"What is the price of TSMC?", ""}
Answers == {"TSMC trades at 172.50 USD.", "I could not find that."}

\* f"temp_{uuid.uuid4().hex}.wav", line 72
temp_path(u) == <<"temp_", u, ".wav">>

\* os.path.join(AUDIO_DIR, f"{uuid.uuid4().hex}.mp3"), lines 85-86
output_filepath(u) == <<"audio/", u, ".mp3">>

NoLocals ==
    [temp_path |-> <<>>, question |-> <<>>, answer |-> <<>>, failed |-> ""]

\* Lines 94-96: the handler of the whole body returns {"error": str(e)}
ErrorRecord(e) ==
    [kind |-> "json",
     value |-> [error |-> <<e>>, question |-> <<>>, answer |-> <<>>,
                answer_audio_file |-> <<>>]]

InitAudio ==
    /\ pc = "ready"
    /\ request \in {[op |-> "ask_audio", upload |-> c] : c \in Uploads}
    /\ selected = NoLocals
    /\ provided = [files |-> {}]
    /\ outcome = [kind |-> "none"]

\* Lines 72-75: open creates the file; open itself, the read of the upload or
\* the write may raise, the last two after the file was created.
SaveUpload ==
    /\ pc = "ready"
    /\ \E u \in Uuids :
        \/ /\ selected' = [selected EXCEPT !.temp_path = <<temp_path(u)>>]
           /\ provided' = [files |-> provided.files \cup {temp_path(u)}]
           /\ pc' = "saved"
           /\ UNCHANGED outcome
        \/ /\ selected' = [selected EXCEPT !.temp_path = <<temp_path(u)>>,
                                           !.failed = "open"]
           /\ UNCHANGED provided
           /\ outcome' = ErrorRecord("PermissionError")
           /\ pc' = "done"
        \/ /\ selected' = [selected EXCEPT !.temp_path = <<temp_path(u)>>,
                                           !.failed = "write"]
           /\ provided' = [files |-> provided.files \cup {temp_path(u)}]
           /\ outcome' = ErrorRecord("OSError")
           /\ pc' = "done"
    /\ UNCHANGED request

\* Lines 78-79: os.remove runs only after speech_to_text has returned.
SpeechToText ==
    /\ pc = "saved"
    /\ \/ \E question \in Transcripts :
            /\ selected' = [selected EXCEPT !.question = <<question>>]
            /\ provided' = [files |-> provided.files \ {selected.temp_path[1]}]
            /\ pc' = "transcribed"
            /\ UNCHANGED outcome
       \/ \E e \in {"RuntimeError", "FileNotFoundError"} :
            /\ selected' = [selected EXCEPT !.failed = "speech_to_text"]
            /\ outcome' = ErrorRecord(e)
            /\ pc' = "done"
            /\ UNCHANGED provided
    /\ UNCHANGED request

\* Line 82
AnswerQuestion ==
    /\ pc = "transcribed"
    /\ \/ \E answer \in Answers :
            /\ selected' = [selected EXCEPT !.answer = <<answer>>]
            /\ pc' = "answered"
            /\ UNCHANGED outcome
       \/ \E e \in {"ConnectionError", "FileNotFoundError"} :
            /\ selected' = [selected EXCEPT !.failed = "answer_question"]
            /\ outcome' = ErrorRecord(e)
            /\ pc' = "done"
    /\ UNCHANGED <<request, provided>>

\* Lines 85-93
TextToSpeech ==
    /\ pc = "answered"
    /\ \/ \E u \in Uuids :
            /\ provided' = [files |-> provided.files \cup {output_filepath(u)}]
            /\ outcome' =
                [kind |-> "json",
                 value |-> [error |-> <<>>, question |-> selected.question,
                            answer |-> selected.answer,
                            answer_audio_file |-> <<<<u, ".mp3">>>>]]
            /\ UNCHANGED selected
       \/ \E e \in {"RuntimeError", "OSError"} :
            /\ selected' = [selected EXCEPT !.failed = "text_to_speech"]
            /\ outcome' = ErrorRecord(e)
            /\ UNCHANGED provided
    /\ pc' = "done"
    /\ UNCHANGED request

NextAudio ==
    \/ SaveUpload
    \/ SpeechToText
    \/ AnswerQuestion
    \/ TextToSpeech

SpecAudio == InitAudio /\ [][NextAudio]_vars

\* The response of /ask_audio has been returned.
AudioDone == pc = "done" /\ request.op = "ask_audio"

TempFileExists == selected.temp_path[1] \in provided.files

(* C28: for every /ask_audio request, whichever step fails (writing the       *)
(* upload, speech-to-text, answering, text-to-speech), the temporary upload   *)
(* file temp_<uuid>.wav no longer exists when the response is returned, and   *)
(* the endpoint returns an 'error' record instead of raising.                 *)
C28_TempFileRemoved ==
    (AudioDone /\ selected.failed # "") =>
        /\ ~TempFileExists
        /\ outcome.kind = "json"
        /\ outcome.value.error # <<>>

\* What the code does: speech_to_text raises and the upload file stays.
C28_Divergence ==
    /\ AudioDone
    /\ selected.failed = "speech_to_text"
    /\ TempFileExists
    /\ outcome.value.error = <<"RuntimeError">>

\* The parts of C28 the code keeps: a failure is answered with an 'error'
\* record, and the file is gone when a later step or no step fails.
C28_ErrorRecord ==
    AudioDone =>
        /\ outcome.kind = "json"
        /\ (selected.failed # "") = (outcome.value.error # <<>>)
        /\ selected.failed \in {"", "answer_question", "text_to_speech", "open"}
            => ~TempFileExists

---------------------------------------------------------------------------
(* SessionState (src/streamlit_app/utils.py, lines 267-336).  selected is the *)
(* Streamlit session_state: for every key <<>> when the key is absent and     *)
(* <<value>> when it is present.  request is the last call.                   *)

MaxHistory == 3

SessionKeys ==
    {"chat_history", "last_question", "last_answer", "api_client",
     "is_processing", "error_count"}

\* lines 280-287
defaults ==
    [chat_history |-> <<>>,
     last_question |-> "",
     last_answer |-> "",
     api_client |-> "None",
     is_processing |-> FALSE,
     error_count |-> 0]

\* A session_state without keys
NewSession == [key \in SessionKeys |-> <<>>]

UserQuestions == {"Did TSMC beat earnings expectations?", ""}
AgentAnswers == {"TSMC beat estimates by 4%.", "I could not find that."}
\* format_timestamp(), line 262: the clock at a resolution of one second
Timestamps == {"2024-05-01 10:00:00", "2024-05-01 10:00:01"}

\* Mutant of init_defaults: every key is set to its default.
init_defaults_Overwrite(st_session_state) ==
    [key \in SessionKeys |-> <<defaults[key]>>]

\* init_defaults, lines 289-291
init_defaults(st_session_state) ==
    [key \in SessionKeys |->
        IF st_session_state[key] = <<>>
        THEN <<defaults[key]>>
        ELSE st_session_state[key]]

\* Mutant of add_to_history: last_answer is left as it was.
add_to_history_NoAnswer(st_session_state, timestamp, question, answer) ==
    [st_session_state EXCEPT
        !.chat_history = <<Append(@[1], [timestamp |-> timestamp,
                                         question |-> question,
                                         answer |-> answer])>>,
        !.last_question = <<question>>]

\* add_to_history, lines 303-309
add_to_history(st_session_state, timestamp, question, answer) ==
    [st_session_state EXCEPT
        !.chat_history = <<Append(@[1], [timestamp |-> timestamp,
                                         question |-> question,
                                         answer |-> answer])>>,
        !.last_question = <<question>>,
        !.last_answer = <<answer>>]

\* clear_history, lines 318-320
clear_history(st_session_state) ==
    [st_session_state EXCEPT
        !.chat_history = << <<>> >>,
        !.last_question = <<"">>,
        !.last_answer = <<"">>]

\* get_api_client, lines 334-336
get_api_client(st_session_state, base_url) ==
    IF st_session_state.api_client = <<"None">>
    THEN [st_session_state EXCEPT !.api_client = <<<<"APIClient", base_url>>>>]
    ELSE st_session_state

Session == selected

InitSession ==
    /\ pc = "ready"
    /\ request = [op |-> "new_session", question |-> "", answer |-> ""]
    /\ selected = NewSession
    /\ provided = <<>>
    /\ outcome = [kind |-> "none"]

InitDefaults ==
    /\ selected' = init_defaults(Session)
    /\ request' = [op |-> "init_defaults", question |-> "", answer |-> ""]
    /\ UNCHANGED <<pc, provided, outcome>>

\* The attribute read of chat_history needs the key.
AddToHistory ==
    /\ Session.chat_history # <<>>
    /\ Len(Session.chat_history[1]) < MaxHistory
    /\ \E timestamp \in Timestamps, question \in UserQuestions,
          answer \in AgentAnswers :
        /\ selected' = add_to_history(Session, timestamp, question, answer)
        /\ request' = [op |-> "add_to_history", question |-> question,
                       answer |-> answer]
    /\ UNCHANGED <<pc, provided, outcome>>

ClearHistory ==
    /\ Session.chat_history # <<>>
    /\ selected' = clear_history(Session)
    /\ request' = [op |-> "clear_history", question |-> "", answer |-> ""]
    /\ UNCHANGED <<pc, provided, outcome>>

GetApiClient ==
    /\ Session.api_client # <<>>
    /\ selected' = get_api_client(Session, "http://localhost:8001")
    /\ request' = [op |-> "get_api_client", question |-> "", answer |-> ""]
    /\ UNCHANGED <<pc, provided, outcome>>

NextSession ==
    \/ InitDefaults
    \/ AddToHistory
    \/ ClearHistory
    \/ GetApiClient

SpecSession == InitSession /\ [][NextSession]_vars

\* init_defaults has run on the session.
Initialised == \A key \in SessionKeys : Session[key] # <<>>

\* last_question and last_answer agree with the chat history.
LastMatchesHistory ==
    LET history == Session.chat_history[1]
    IN  IF history = <<>>
        THEN Session.last_question = <<"">> /\ Session.last_answer = <<"">>
        ELSE /\ Session.last_question = <<history[Len(history)].question>>
             /\ Session.last_answer = <<history[Len(history)].answer>>

(* C29: after init_defaults followed by any sequence of add_to_history and    *)
(* clear_history calls, last_question and last_answer are those of the last   *)
(* chat_history entry, or both "" when chat_history is empty; add_to_history  *)
(* appends exactly one entry and never reorders or drops earlier ones; and a  *)
(* repeated init_defaults never overwrites a key already present.             *)
C29_SessionHistory ==
    /\ [](Initialised => LastMatchesHistory)
    /\ [][AddToHistory =>
            /\ Len(selected'.chat_history[1]) = Len(Session.chat_history[1]) + 1
            /\ SubSeq(selected'.chat_history[1], 1, Len(Session.chat_history[1]))
                = Session.chat_history[1]
            /\ selected'.chat_history[1][Len(selected'.chat_history[1])].question
                = request'.question
            /\ selected'.chat_history[1][Len(selected'.chat_history[1])].answer
                = request'.answer]_vars
    /\ [][InitDefaults =>
            \A key \in SessionKeys :
                Session[key] # <<>> => selected'[key] = Session[key]]_vars

\* A third entry was appended after a clear and a repeated init_defaults kept
\* the history, the last question and the API client.
C29_Witness ==
    /\ request.op = "init_defaults"
    /\ Len(Session.chat_history[1]) = 3
    /\ Session.last_question = <<"">>
    /\ Session.last_answer = <<"I could not find that.">>
    /\ Session.api_client # <<"None">>
    /\ Session.chat_history[1][1].question # ""

---------------------------------------------------------------------------
(* get_realtime_price (src/agents/market_data_agent.py, lines 122-219).  A    *)
(* name is a tuple of characters; the quote provider answers the read of      *)
(* ticker.info and the call of ticker.history(period="1d").                   *)

\* Python's None where a float may stand
PyNone == [kind |-> "none", v |-> 0]

\* bool(x) of None or a float
Truthy(x) == x.kind = "nan" \/ (x.kind = "num" /\ x.v # 0)

\* The entries of SYMBOL_MAP (lines 19-100) that the names below reach
SYMBOL_MAP ==
    <<[key |-> <<"i","n","f","o","s","y","s">>, symbol |-> <<"I","N","F","Y",".","N","S">>],
      [key |-> <<"m","s","f","t">>, symbol |-> <<"M","S","F","T">>],
      [key |-> <<"t","s","m","c">>, symbol |-> <<"T","S","M">>],
      [key |-> <<"s","a","m","s","u","n","g">>,
       symbol |-> <<"0","0","5","9","3","0",".","K","S">>]>>

RECURSIVE lstrip(_)
lstrip(s) == IF s # <<>> /\ Head(s) = " " THEN lstrip(Tail(s)) ELSE s

RECURSIVE rstrip(_)
rstrip(s) ==
    IF s # <<>> /\ s[Len(s)] = " " THEN rstrip(SubSeq(s, 1, Len(s) - 1)) ELSE s

\* str.strip()
strip(s) == rstrip(lstrip(s))

\* str.isupper(): a cased character, and no lowercase one
isupper(s) ==
    /\ \E i \in 1..Len(s) : IsUpperChar(s[i])
    /\ \A i \in 1..Len(s) : ~(\E j \in 1..26 : LowerCase[j] = s[i])

\* resolve_symbol, lines 132-147: Optional symbol
resolve_symbol(query) ==
    LET query_lower == strip(lower(query))
    IN  IF \E i \in 1..Len(SYMBOL_MAP) : SYMBOL_MAP[i].key = query_lower
        THEN <<SYMBOL_MAP[CHOOSE i \in 1..Len(SYMBOL_MAP) :
                              SYMBOL_MAP[i].key = query_lower].symbol>>
        ELSE IF isupper(query) /\ Len(query) >= 2
        THEN <<query>>
        ELSE <<>>

Names ==
    {<<"t","s","m","c">>, <<" ","M","s","f","t"," ">>, <<"Z","Z","Z","Z">>,
     <<"A","c","m","e">>, <<"X">>, <<>>}

\* ticker.info: the read raises, or gives None, or a dict; of the dict the
\* entries the code reads (<<>> is a missing key).
Infos ==
    {[read |-> r, regularMarketPrice |-> <<>>, previousClose |-> <<>>] :
        r \in {"raises", "None"}}
    \cup {[read |-> "dict", regularMarketPrice |-> p, previousClose |-> c] :
            p \in {<<>>, <<PyNone>>, <<Dec(172, 50)>>},
            c \in {<<>>, <<F(0)>>, <<Dec(170, 0)>>}}

\* ticker.history(period="1d"): raises, or the number of rows and the last Close
DayHistories ==
    {[raises |-> TRUE, rows |-> 0, close |-> NaN],
     [raises |-> FALSE, rows |-> 0, close |-> NaN],
     [raises |-> FALSE, rows |-> 1, close |-> Dec(171, 25)],
     [raises |-> FALSE, rows |-> 1, close |-> NaN]}

Quotes == {[info |-> i, hist |-> h] : i \in Infos, h \in DayHistories}

\* `not info`: None, or a dict without entries
InfoIsFalsy(info) ==
    \/ info.read = "None"
    \/ info.regularMarketPrice = <<>> /\ info.previousClose = <<>>

\* Mutant of the handler of lines 212-218: the exception is raised again.
OnPriceException_Reraise(symbol_or_name, e) ==
    [kind |-> "raised", exception |-> e]

\* Lines 212-218
OnPriceException(symbol_or_name, e) ==
    [kind |-> "returned",
     value |-> [status |-> "data_unavailable",
                message |-> <<<<"Market data for ", symbol_or_name,
                               " is currently unavailable.">>>>,
                symbol |-> <<>>, error |-> <<e>>, price |-> <<>>,
                previous_close |-> <<>>, day_change |-> <<>>,
                day_change_percent |-> <<>>]]

\* Lines 183-210, with current_price given: the arithmetic raises TypeError on
\* None, and previous_close is used only when it is truthy.
PriceRecord(symbol_or_name, resolved_symbol, info, current_price) ==
    LET previous_close ==
            IF info.previousClose = <<>> THEN F(0) ELSE info.previousClose[1]
    IN  IF current_price = PyNone
        THEN OnPriceException(symbol_or_name, "TypeError")
        ELSE [kind |-> "returned",
              value |-> [status |-> "success",
                         message |-> <<>>,
                         symbol |-> <<resolved_symbol>>,
                         error |-> <<>>,
                         price |-> <<Round2(current_price)>>,
                         previous_close |->
                            IF Truthy(previous_close)
                            THEN <<Round2(previous_close)>> ELSE <<PyNone>>,
                         day_change |->
                            IF Truthy(previous_close)
                            THEN <<Round2(FAdd(current_price, F(0 - previous_close.v)))>>
                            ELSE <<F(0)>>,
                         day_change_percent |->
                            IF Truthy(previous_close)
                            THEN <<Round2(PctChange(current_price, previous_close))>>
                            ELSE <<F(0)>>]]

\* get_realtime_price, lines 160-218
get_realtime_price(symbol_or_name, quote) ==
    LET resolved == resolve_symbol(symbol_or_name)
        resolved_symbol ==
            IF resolved # <<>> /\ resolved[1] # <<>>
            THEN resolved[1] ELSE upper(symbol_or_name)
        info == quote.info
        hist == quote.hist
    IN  IF info.read = "raises"
        THEN OnPriceException(symbol_or_name, "ConnectionError")
        ELSE IF InfoIsFalsy(info) \/ info.regularMarketPrice = <<>>
        THEN IF hist.raises
             THEN OnPriceException(symbol_or_name, "HTTPError")
             ELSE IF hist.rows = 0
             THEN [kind |-> "returned",
                   value |-> [status |-> "data_unavailable",
                              message |-> <<<<"Market data for ", symbol_or_name,
                                             " is currently unavailable.">>>>,
                              symbol |-> <<resolved_symbol>>, error |-> <<>>,
                              price |-> <<>>, previous_close |-> <<>>,
                              day_change |-> <<>>, day_change_percent |-> <<>>]]
             ELSE IF info.read = "None"
             THEN OnPriceException(symbol_or_name, "AttributeError")
             ELSE PriceRecord(symbol_or_name, resolved_symbol, info, hist.close)
        ELSE PriceRecord(symbol_or_name, resolved_symbol, info,
                         info.regularMarketPrice[1])

InitPrice ==
    /\ pc = "ready"
    /\ request \in {[op |-> "get_realtime_price", symbol_or_name |-> n] : n \in Names}
    /\ selected = <<>>
    /\ provided = <<>>
    /\ outcome = [kind |-> "none"]

GetRealtimePrice ==
    /\ pc = "ready"
    /\ request.op = "get_realtime_price"
    /\ \E quote \in Quotes :
        /\ provided' = <<quote>>
        /\ outcome' = get_realtime_price(request.symbol_or_name, quote)
    /\ pc' = "done"
    /\ UNCHANGED <<request, selected>>

SpecPrice == InitPrice /\ [][GetRealtimePrice]_vars

\* get_realtime_price has returned or raised; what the provider did.
PriceCall == pc = "done" /\ request.op = "get_realtime_price"

Quote == provided[1]

\* The quote info holds a price.
PriceInInfo ==
    /\ Quote.info.read = "dict"
    /\ Quote.info.regularMarketPrice # <<>>
    /\ Quote.info.regularMarketPrice[1] # PyNone

\* The 1-day history was read and has a last close.
PriceInHistory ==
    /\ Quote.info.read = "dict"
    /\ Quote.info.regularMarketPrice = <<>>
    /\ ~Quote.hist.raises
    /\ Quote.hist.rows > 0

(* C30: get_realtime_price never raises, for any input name and any behaviour *)
(* of the provider (missing or empty info, missing regularMarketPrice, empty  *)
(* 1-day history, provider exception): it always returns a record whose       *)
(* status is "success" or "data_unavailable"; it is "success" only when a     *)
(* price was obtained from the quote info or from the last close of a         *)
(* non-empty history; and a "data_unavailable" record always has a 'message'. *)
C30_PriceNeverRaises ==
    PriceCall =>
        /\ outcome.kind = "returned"
        /\ outcome.value.status \in {"success", "data_unavailable"}
        /\ outcome.value.status = "success" =>
            \/ PriceInInfo
                /\ outcome.value.price = <<Round2(Quote.info.regularMarketPrice[1])>>
            \/ PriceInHistory
                /\ outcome.value.price = <<Round2(Quote.hist.close)>>
        /\ outcome.value.status = "data_unavailable" =>
            /\ outcome.value.message # <<>>
            /\ outcome.value.price = <<>>

\* An unmapped mixed-case name, an empty quote info and a history with a last
\* close: the price of the close is returned for the upper-cased name.
C30_Witness ==
    /\ PriceCall
    /\ request.symbol_or_name = <<"A","c","m","e">>
    /\ InfoIsFalsy(Quote.info)
    /\ Quote.info.read = "dict"
    /\ outcome.value.status = "success"
    /\ outcome.value.symbol = <<<<"A","C","M","E">>>>
    /\ outcome.value.price = <<Dec(171, 25)>>

\* The provider raised, and the record says so.
C30_WitnessException ==
    /\ PriceCall
    /\ Quote.hist.raises
    /\ Quote.info.read = "None"
    /\ outcome.value.status = "data_unavailable"
    /\ outcome.value.error = <<"HTTPError">>

\* A quote info whose regularMarketPrice is None gives data_unavailable.
C30_WitnessNonePrice ==
    /\ PriceCall
    /\ Quote.info.regularMarketPrice = <<PyNone>>
    /\ outcome.value.status = "data_unavailable"
    /\ outcome.value.error = <<"TypeError">>

===========================================================================
